---- MODULE Spec2Model ----
(***************************************************************************)
(* The scenario execution engine of ui-test-agent: ScenarioRunner.run      *)
(* (runner.py), the action handlers it dispatches to, the assertion        *)
(* oracle (oracle.py, semantic_eval.py), the locator candidates            *)
(* (locators.py), and the scenario loader (dsl.py) as main() calls it      *)
(* before the run (cli.py).                                                *)
(*                                                                         *)
(* run() is single-threaded: BeginStep takes the next flow entry, Attempt  *)
(* is one iteration of the attempt loop with everything _execute and the   *)
(* failure capture do on the page, Finish builds the report.  What the     *)
(* page answers (a call returns or throws, the page text) is chosen by     *)
(* the environment in every attempt.                                       *)
(*                                                                         *)
(* Strings are sequences of lexemes (short atoms): "" is <<>>, "a|b" is    *)
(* <<"a", "|", "b">>.  The Python string operations the code uses (strip,  *)
(* split, startswith, in, lower, len, truthiness) are defined on that      *)
(* representation.                                                         *)
(***************************************************************************)
EXTENDS Integers, Sequences, FiniteSets, TLC

\* ------------------------------------------------------------------ bounds
MaxFlow == 3
MaxRetry == 2
CallMs == 5

\* ------------------------------------------------------- Python values
PyNone == <<"<None>">>

Truthy(v) == v # PyNone /\ Len(v) > 0

\* `a or b`
PyOr(a, b) == IF Truthy(a) THEN a ELSE b

Max(a, b) == IF a >= b THEN a ELSE b

RECURSIVE SumLen(_)
LexLen(l) ==
    CASE l = "data-testid" -> 11
      [] l = "placeholder" -> 11
      [] l = "nth-child" -> 9
      [] l \in {"https://", "app.test", "cdn.test", "App.Test"} -> 8
      [] l = "evil.test" -> 9
      [] l = "http://" -> 7
      [] l \in {"/home", "/lib"} -> 5
      [] l \in {"role", "text", "name", "save", "Save", "menu"} -> 4
      [] l = "//" -> 2
      [] l \in {"Welcome", "welcome"} -> 7
      [] l \in {"logged", "Logged", "status"} -> 6
      [] l = "in" -> 2
      [] l \in {"back", "user"} -> 4
      [] l = "button" -> 6
      [] l \in {"li", "ul"} -> 2
      [] l = "missing" -> 7
      [] l \in {"real", "gone", "list", "item"} -> 4
      [] OTHER -> Len(l)

\* len(s)
SumLen(s) == IF s = <<>> THEN 0 ELSE LexLen(Head(s)) + SumLen(Tail(s))

IsSpace(l) == l \in {" ", "\n"}

\* s.startswith(p)
StartsWith(s, p) == Len(s) >= Len(p) /\ SubSeq(s, 1, Len(p)) = p

\* p in s
Contains(s, p) ==
    \E i \in 1..(Len(s) - Len(p) + 1) : SubSeq(s, i, i + Len(p) - 1) = p

RECURSIVE LStrip(_)
LStrip(s) == IF s # <<>> /\ IsSpace(Head(s)) THEN LStrip(Tail(s)) ELSE s

RECURSIVE RStrip(_)
RStrip(s) ==
    IF s # <<>> /\ IsSpace(s[Len(s)]) THEN RStrip(SubSeq(s, 1, Len(s) - 1)) ELSE s

\* s.strip()
Strip(s) == RStrip(LStrip(s))

LowerLex(l) ==
    CASE l = "Welcome" -> "welcome"
      [] l = "Logged" -> "logged"
      [] l = "Save" -> "save"
      [] l = "App.Test" -> "app.test"
      [] OTHER -> l

\* s.lower()
Lower(s) == [i \in 1..Len(s) |-> LowerLex(s[i])]

\* ------------------------------------------------------------ exceptions
NoExc == [cls |-> "", msg |-> <<>>]

Raise(cls, msg) == [cls |-> cls, msg |-> msg]

\* what a page-handle operation can throw: a timeout, or another
\* playwright error
PageFailures ==
    { Raise("TimeoutError", <<"Timeout", " ", "exceeded">>),
      Raise("Error", <<"Target", " ", "closed">>) }

\* ------------------------------------------------------------- payloads
PStr(s) == [kind |-> "str", str |-> s, d |-> {}]
PDict(d) == [kind |-> "dict", str |-> <<>>, d |-> d]
PList == [kind |-> "list", str |-> <<>>, d |-> {}]
PNull == [kind |-> "none", str |-> <<>>, d |-> {}]

HasKey(p, k) == \E kv \in p.d : kv[1] = k

\* payload.get(k, default)
Get(p, k, default) ==
    IF HasKey(p, k) THEN (CHOOSE kv \in p.d : kv[1] = k)[2] ELSE default

\* ------------------------------------------------------------------ URLs
Schemes == {"http://", "https://"}

\* urllib.parse.urljoin(base, ref), base being scheme + host
urljoin(base, ref) ==
    IF ref = <<>> THEN base
    ELSE IF Head(ref) \in Schemes THEN ref
    ELSE IF Head(ref) = "//" THEN <<Head(base)>> \o Tail(ref)
    ELSE SubSeq(base, 1, 2) \o ref

\* urlparse(url).hostname: lower-cased, None without a network location
Hostname(url) ==
    IF Len(url) >= 2 /\ Head(url) \in Schemes THEN <<LowerLex(url[2])>> ELSE PyNone

\* -------------------------------------------------------------- locators
\* raw.split(sep)
RECURSIVE SplitOn(_, _)
SplitOn(s, sep) ==
    IF \A i \in 1..Len(s) : s[i] # sep THEN <<s>>
    ELSE LET i == CHOOSE j \in 1..Len(s) :
                      s[j] = sep /\ \A k \in 1..(j - 1) : s[k] # sep
         IN  <<SubSeq(s, 1, i - 1)>> \o SplitOn(SubSeq(s, i + 1, Len(s)), sep)

NonBlank(part) == Strip(part) # <<>>

\* [part for part in parts if part.strip()]
RECURSIVE KeepNonBlank(_)
KeepNonBlank(xs) ==
    IF xs = <<>> THEN <<>>
    ELSE (IF NonBlank(Head(xs)) THEN <<Head(xs)>> ELSE <<>>) \o KeepNonBlank(Tail(xs))

Checks ==
    << [needle |-> <<"data-testid">>, score |-> 0],
       [needle |-> <<"role", "=">>, score |-> 1],
       [needle |-> <<"#">>, score |-> 2],
       [needle |-> <<"[", "name">>, score |-> 3],
       [needle |-> <<"[", "placeholder">>, score |-> 4],
       [needle |-> <<"text", "=">>, score |-> 5] >>

RECURSIVE ScoreFrom(_, _)
ScoreFrom(clean, i) ==
    IF i > Len(Checks)
    THEN IF Contains(clean, <<"nth-child">>) THEN 9 ELSE 6
    ELSE LET needle == Checks[i].needle
             score == Checks[i].score
         IN  IF needle = <<"#">> /\ StartsWith(clean, <<"#">>) THEN score
             ELSE IF needle = <<"role", "=">> /\ StartsWith(clean, <<"role", "=">>)
             THEN score
             ELSE IF Contains(clean, needle) THEN score
             ELSE ScoreFrom(clean, i + 1)

\* _score_selector(selector): the sort key (priority, length)
score_selector(selector) ==
    LET clean == Strip(selector)
    IN  <<ScoreFrom(clean, 1), SumLen(clean)>>

\* the keys compared by priority alone
KeyLEPriorityOnly(a, b) == a[1] <= b[1]

\* the keys compared strictly: an element goes before its equals
KeyLT(a, b) == a[1] < b[1] \/ (a[1] = b[1] /\ a[2] < b[2])

\* (priority, length) tuples: a <= b
KeyLE(a, b) == a[1] < b[1] \/ (a[1] = b[1] /\ a[2] <= b[2])

\* sorted(parts, key=...) is stable: an element goes after the elements
\* already placed whose key is not greater
RECURSIVE InsertByKey(_, _)
InsertByKey(sorted, x) ==
    IF sorted = <<>> THEN <<x>>
    ELSE IF KeyLE(score_selector(Head(sorted)), score_selector(x))
    THEN <<Head(sorted)>> \o InsertByKey(Tail(sorted), x)
    ELSE <<x>> \o sorted

RECURSIVE SortedByKey(_)
SortedByKey(parts) ==
    IF parts = <<>> THEN <<>>
    ELSE InsertByKey(SortedByKey(SubSeq(parts, 1, Len(parts) - 1)), parts[Len(parts)])

\* locator_candidates(raw)
locator_candidates(raw) ==
    LET kept == KeepNonBlank(SplitOn(raw, "|"))
        parts == [i \in 1..Len(kept) |-> Strip(kept[i])]
    IN  SortedByKey(parts)

\* parse_role(raw): ROLE_PATTERN.fullmatch, role=name or role=name[attrs]
RoleParses(sel) ==
    /\ Len(sel) >= 3
    /\ SubSeq(sel, 1, 2) = <<"role", "=">>
    /\ sel[3] \notin {"[", "]", "=", "#", " ", "|"}
    /\ \/ Len(sel) = 3
       \/ Len(sel) >= 6 /\ sel[4] = "[" /\ sel[Len(sel)] = "]"

\* ---------------------------------------------------------------- state
VARIABLES
    settings,       \* Settings: base_url, allowed_hosts, retry_step, axe, comparator
    flow,           \* scenario.flow: each entry the (action, payload) items of a mapping
    pc,             \* "for" | "attempt" | "finish" | "done" | "raised"
    index,          \* run(): index of the flow entry being handled
    action,         \* run(): action of the entry
    payload,        \* run(): payload of the entry
    attempt,        \* run(): attempt number within the entry
    success,        \* run(): the entry passed
    attempt_error,  \* run(): str(exc) of the latest failed attempt
    started_at,     \* run(): perf_counter() at the start of the attempt
    results,        \* run(): the StepResults so far
    status,         \* run(): "passed" | "failed"
    clock,          \* time.perf_counter(), in ms since the entry began
    pageLog,        \* every call made on the page handle, in order
    execLog,        \* every call of _execute: [index, attempt, ok]
    lastAttempt,    \* the latest call of _execute, with what it did
    returned,       \* the RunnerResult run() returned, or NoReturn
    raised,         \* the exception that left run(), or NoExc
    document,       \* main(): the parsed scenario file, NoDocument outside main()
    scenario,       \* what load_scenario gave: the Scenario, or its ScenarioError
    exit_code,      \* main(): the value returned, NoExit until then
    base_env,       \* the base_env load_scenario is called with
    heap,           \* the dict objects on the interpreter heap, by address
    base_ref,       \* the address of the caller's base env on the heap
    merges,         \* every env built so far: what went in, and where it is
    dom_cache,      \* NaturalLanguageOrchestrator._dom_cache: url -> (snapshot, timestamp)
    time,           \* time.time(), in seconds
    lookups,        \* every cache_dom / get_cached_dom call made, in order
    main_pc,        \* main(): "settings" | "prompt" | "dynamic" | "build" | "load" |
                    \*         "execute" | "replan" | "return" | "exit" | "raised"
    args,           \* main(): the parsed command line of the run command
    nl_builder,     \* main(): a NaturalLanguageOrchestrator is kept for replanning
    main_attempt,   \* main(): attempt
    main_success,   \* main(): success
    mainLog,        \* main(): what each collaborator called so far gave, in order
    agent_pc,       \* execute_goal(): "start" | "loop" | "returned" | "raised"
    model,          \* DynamicNLAgent.model is configured
    steps_taken,    \* execute_goal(): steps_taken
    history,        \* DynamicNLAgent.history
    goal_result     \* what execute_goal returned: [status, steps], or NoResult

runVars ==
    << settings, flow, pc, index, action, payload, attempt, success,
       attempt_error, started_at, results, status, clock, pageLog, execLog,
       lastAttempt, returned, raised, document, scenario, base_env >>

runnerVars == << runVars, exit_code >>

mergeVars == << heap, base_ref, merges >>

cacheVars == << dom_cache, time, lookups >>

\* the state of the components a ScenarioRunner run does not touch
mainVars == << main_pc, args, nl_builder, main_attempt, main_success, mainLog >>

agentVars == << agent_pc, model, steps_taken, history, goal_result >>

componentVars == << mergeVars, cacheVars, mainVars, agentVars >>

vars == << runnerVars, componentVars >>

\* no dict has been allocated, no env merged
MergeIdle ==
    /\ heap = <<>>
    /\ base_ref = 0
    /\ merges = <<>>

\* NaturalLanguageOrchestrator.__init__: the cache is empty
CacheIdle ==
    /\ dom_cache = {}
    /\ time = 0
    /\ lookups = <<>>

NoArgs == [nl |-> "none", scenario |-> FALSE, dynamic |-> FALSE]

\* main() has not been called
MainIdle ==
    /\ main_pc = "idle"
    /\ args = NoArgs
    /\ nl_builder = FALSE
    /\ main_attempt = 0
    /\ main_success = FALSE
    /\ mainLog = <<>>

NoResult == [status |-> "none", steps |-> <<>>]

\* no DynamicNLAgent has been asked for a goal
AgentIdle ==
    /\ agent_pc = "idle"
    /\ model = FALSE
    /\ steps_taken = 0
    /\ history = <<>>
    /\ goal_result = NoResult

ComponentsIdle == MergeIdle /\ CacheIdle /\ MainIdle /\ AgentIdle

\* ------------------------------------------------------ page operations
Call(op, arg, res, val) == [op |-> op, arg |-> arg, res |-> res, val |-> val]

Outcome(exc, calls) == [exc |-> exc, calls |-> calls]

\* an operation that needs no page call and does not throw
Skip == {Outcome(NoExc, <<>>)}

Throw(cls, msg) == {Outcome(Raise(cls, msg), <<>>)}

\* a page operation that succeeds or throws one of `failures`
PageOpF(op, arg, failures) ==
    {Outcome(NoExc, <<Call(op, arg, "ok", <<>>)>>)}
        \cup {Outcome(f, <<Call(op, arg, f.cls, <<>>)>>) : f \in failures}

PageOp(op, arg) == PageOpF(op, arg, PageFailures)

\* A; B: B runs only when A did not throw
Then(A, B) ==
    {IF a.exc # NoExc THEN a ELSE Outcome(b.exc, a.calls \o b.calls) : a \in A, b \in B}

\* a word of n characters
RECURSIVE Filler(_)
Filler(n) ==
    IF n = 0 THEN ""
    ELSE IF n % 2 = 0 THEN Filler(n \div 2) \o Filler(n \div 2)
    ELSE "x" \o Filler(n - 1)

\* the length of the long words of the page texts
LongWord == 200

\* what page.inner_text("body") may return: nothing, short texts, blank
\* text, and two texts that are 204 and 602 characters long once collapsed
PageTexts ==
    { <<>>,
      <<"Welcome", " ", "back">>,
      <<"user", " ", "logged", " ", "in">>,
      <<"status", " ", "logged">>,
      <<" ", "\n">>,
      <<Filler(LongWord - 1), "\n", " ", "back", " ">>,
      <<"\n", Filler(LongWord), " ", " ", Filler(LongWord), "\n", Filler(LongWord)>> }

InnerText ==
    {Outcome(NoExc, <<Call("inner_text", <<"body">>, "ok", t)>>) : t \in PageTexts}
        \cup {Outcome(f, <<Call("inner_text", <<"body">>, f.cls, <<>>)>>) : f \in PageFailures}

\* the host check made on the base URL instead of the joined target
BlockedByPolicyOfBase(target) == Hostname(settings.base_url) \notin settings.allowed_hosts

\* ------------------------------------------------------------ _navigate
BlockedByPolicy(target) == Hostname(target) \notin settings.allowed_hosts

navigate(path) ==
    LET target == urljoin(settings.base_url, path)
    IN  IF BlockedByPolicy(target)
        THEN Throw("RuntimeError",
                   <<"Blocked navigation to host", " ">> \o Hostname(target))
        ELSE PageOp("goto", target)

\* ----------------------------------------------------- _resolve_locator
\* _build_locator(candidate).first, wait_for(visible), scroll_into_view
TryCandidate(c) ==
    IF StartsWith(c, <<"role", "=">>) /\ ~RoleParses(c)
    THEN Throw("ValueError", <<"Invalid role selector", " ">> \o c)
    ELSE Then(PageOpF("query", c, {}), Then(PageOp("wait_for", c), PageOp("scroll", c)))

\* the first failure ends the resolution
NextCandidateNone(cands, i) == Len(cands) + 1

\* `continue`: the loop goes on with the candidate after the i-th
NextCandidate(cands, i) == i + 1

\* the failure of the first failing candidate is the one kept
LastErrorFirstKept(previous, exc) == IF previous = NoExc THEN exc ELSE previous

\* last_error = exc
LastError(previous, exc) == exc

RECURSIVE TryFrom(_, _, _, _)
TryFrom(selector_str, cands, i, last_error) ==
    IF i > Len(cands)
    THEN Throw("RuntimeError",
               <<"Failed to resolve locator", " ">> \o selector_str \o <<":", " ">>
                    \o (IF last_error = NoExc THEN <<"None">> ELSE last_error.msg))
    ELSE UNION { IF a.exc = NoExc THEN {a}
                 ELSE {Outcome(r.exc, a.calls \o r.calls) :
                          r \in TryFrom(selector_str, cands, NextCandidate(cands, i),
                                        LastError(last_error, a.exc))} :
                 a \in TryCandidate(Strip(cands[i])) }

resolve_locator(selector_str) ==
    TryFrom(selector_str, locator_candidates(selector_str), 1, NoExc)

type_into(selector_str, text) == Then(resolve_locator(selector_str), PageOp("fill", text))

click_on(selector_str) == Then(resolve_locator(selector_str), PageOp("click", selector_str))

\* ------------------------------------------------------- semantic_match
\* s.replace("!", " ")
ReplaceBang(s) == [i \in 1..Len(s) |-> IF s[i] = "!" THEN " " ELSE s[i]]

\* s.split(): the maximal runs without whitespace
RECURSIVE Words(_)
Words(s) ==
    LET t == LStrip(s)
    IN  IF t = <<>> THEN <<>>
        ELSE LET n == IF \E j \in 1..Len(t) : IsSpace(t[j])
                      THEN (CHOOSE j \in 1..Len(t) :
                               IsSpace(t[j]) /\ \A k \in 1..(j - 1) : ~IsSpace(t[k])) - 1
                      ELSE Len(t)
             IN  <<SubSeq(t, 1, n)>> \o Words(SubSeq(t, n + 1, Len(t)))

RECURSIVE Offset(_, _)
\* the number of characters before lexeme i of s
Offset(s, i) == IF i <= 1 THEN 0 ELSE Offset(s, i - 1) + LexLen(s[i - 1])

RECURSIVE KeepWithin(_, _, _, _)
\* the lexemes of s that lie within the characters [start, end)
KeepWithin(s, i, start, end) ==
    IF i > Len(s) THEN <<>>
    ELSE (IF Offset(s, i) >= start /\ Offset(s, i) + LexLen(s[i]) <= end
          THEN <<s[i]>> ELSE <<>>) \o KeepWithin(s, i + 1, start, end)

\* s[:n]: the lexemes that end within the first n characters, then the
\* part of the next one that does
RECURSIVE Prefix(_, _)
Prefix(s, n) ==
    IF s = <<>> \/ n <= 0 THEN <<>>
    ELSE IF LexLen(Head(s)) <= n
    THEN <<Head(s)>> \o Prefix(Tail(s), n - LexLen(Head(s)))
    ELSE <<SubSeq(Head(s), 1, n)>>

\* _extract_between(text, marker, span)
extract_between(text, marker, span) ==
    LET low == Lower(text)
    IN  IF ~Contains(low, marker) THEN PyNone
        ELSE LET i == CHOOSE j \in 1..Len(low) :
                          /\ SubSeq(low, j, j + Len(marker) - 1) = marker
                          /\ \A k \in 1..(j - 1) : SubSeq(low, k, k + Len(marker) - 1) # marker
                 idx == Offset(low, i)
                 start == Max(0, idx - span \div 2)
                 end == IF SumLen(text) <= idx + span \div 2
                        THEN SumLen(text) ELSE idx + span \div 2
             IN  KeepWithin(text, 1, start, end)

\* _heuristic_match(page_text, expectation, selector, probe_text)
heuristic_match(page_text, expectation, selector, probe_text) ==
    LET expectation_lower == Lower(expectation)
        page_lower == Lower(page_text)
        status_fragment == extract_between(page_text, <<"status">>, 200)
        tokens == Words(ReplaceBang(expectation_lower))
    IN  \/ Truthy(expectation_lower) /\ Contains(page_lower, expectation_lower)
        \/ Truthy(probe_text) /\ Contains(page_lower, Lower(probe_text))
        \/ /\ Truthy(selector) /\ Contains(selector, <<"#", "status">>)
           /\ Truthy(status_fragment)
           /\ Contains(Lower(status_fragment), Words(expectation_lower)[1])
        \/ \A i \in 1..Len(tokens) : i <= 2 => Contains(page_lower, tokens[i])

\* what the configured model may answer: YES..., NO..., something else, or
\* generate_content throws
ComparatorAnswers == {"yes", "no", "other", "error"}

\* the local heuristic able to overrule a negative answer
VerdictLocalFirst(ans, local) == local \/ ans = "yes"

\* text.startswith("yes") -> True, text.startswith("no") -> False, any
\* other answer or an exception -> the heuristic
Verdict(ans, local) ==
    CASE ans = "yes" -> TRUE
      [] ans = "no" -> FALSE
      [] OTHER -> local

\* semantic_match(...): the set of [match, calls]
semantic_match(page_text, expectation0, selector, probe_text) ==
    LET expectation == Strip(expectation0)
        local == heuristic_match(page_text, expectation, selector, probe_text)
    IN  IF ~Truthy(expectation) THEN {[match |-> FALSE, calls |-> <<>>]}
        ELSE IF settings.comparator
        THEN {[match |-> Verdict(ans, local),
               calls |-> <<Call("comparator", expectation, ans, page_text)>>] :
                 ans \in ComparatorAnswers}
        ELSE {[match |-> local, calls |-> <<>>]}

\* ------------------------------------------------------------- see_text
\* oracle.see_text: locator.wait_for(visible) throws playwright's
\* TimeoutError (or Error), it never raises OracleError
see_text(text) == PageOp("wait_for_text", text)

\* `except OracleError`
IsOracleError(exc) == exc.cls = "OracleError"

\* the literal text was seen and the semantic check runs all the same
LiteralSeenThenChecked(lit, fallback) ==
    {Outcome(f.exc, lit.calls \o f.calls) : f \in fallback}

\* see_text(...) came back: `return`
LiteralSeen(lit, fallback) == {lit}

\* the see branch from `expectation = meaning or text_target` on
SeeFallback(p, text_target, meaning, last_error) ==
    LET expectation == PyOr(meaning, text_target)
        selector_hint == IF p.kind = "dict" THEN Get(p, "selector", PyNone) ELSE PyNone
        probe_text == IF p.kind = "dict" THEN Get(p, "text", PyNone) ELSE PyNone
    IN  IF Truthy(expectation)
        THEN UNION { IF r.exc # NoExc THEN {r}
                     ELSE { Outcome(IF m.match THEN NoExc
                                    ELSE Raise("RuntimeError",
                                               <<"Semantic expectation not met", " ">>
                                                    \o expectation),
                                    r.calls \o m.calls) :
                              m \in semantic_match(r.calls[1].val, expectation,
                                                   selector_hint, probe_text) } :
                     r \in InnerText }
        ELSE IF last_error # NoExc THEN {Outcome(last_error, <<>>)}
        ELSE Throw("RuntimeError", <<"see step missing expectation">>)

\* _execute, action == "see"
ExecSee(p) ==
    IF p.kind \notin {"str", "dict"}
    THEN Throw("RuntimeError", <<"see step expects string or mapping">>)
    ELSE LET text_target == IF p.kind = "str" THEN p.str ELSE Get(p, "text", PyNone)
             meaning == IF p.kind = "str" THEN PyNone
                        ELSE PyOr(Get(p, "meaning", PyNone),
                                  PyOr(Get(p, "expected", PyNone),
                                       Get(p, "description", PyNone)))
         IN  IF Truthy(text_target)
             THEN UNION { IF lit.exc = NoExc
                          THEN LiteralSeen(lit, SeeFallback(p, text_target, meaning, NoExc))
                          ELSE IF IsOracleError(lit.exc)
                          THEN {Outcome(f.exc, lit.calls \o f.calls) :
                                   f \in SeeFallback(p, text_target, meaning, lit.exc)}
                          ELSE {lit} :
                          lit \in see_text(text_target) }
             ELSE SeeFallback(p, text_target, meaning, NoExc)

\* ------------------------------------------------------------- _execute
\* payload.get(...) on a payload that is no mapping
NoGet(p) == Throw("AttributeError", <<"object has no attribute 'get'">>)

ExecGo(p) ==
    CASE p.kind = "str" -> navigate(p.str)
      [] p.kind = "dict" -> navigate(Get(p, "path", <<"/">>))
      [] OTHER -> NoGet(p)

ExecType(p) ==
    IF p.kind # "dict" THEN Throw("RuntimeError", <<"type step expects mapping">>)
    ELSE IF ~HasKey(p, "into") THEN Throw("KeyError", <<"'into'">>)
    ELSE IF ~HasKey(p, "text") THEN Throw("KeyError", <<"'text'">>)
    ELSE type_into(Get(p, "into", PyNone), Get(p, "text", PyNone))

ExecClick(p) ==
    IF p.kind \notin {"str", "dict"} THEN NoGet(p)
    ELSE LET locator == IF p.kind = "str" THEN p.str ELSE Get(p, "on", PyNone)
         IN  IF ~Truthy(locator) THEN Throw("RuntimeError", <<"click step missing 'on'">>)
             ELSE click_on(locator)

\* see_url: expect(page).to_have_url(...)
ExecSeeUrl(p) ==
    IF p.kind \notin {"str", "dict"} THEN NoGet(p)
    ELSE LET fragment == IF p.kind = "str" THEN p.str
                         ELSE PyOr(Get(p, "fragment", PyNone),
                                   PyOr(Get(p, "value", PyNone), Get(p, "path", PyNone)))
         IN  IF ~Truthy(fragment) THEN Throw("RuntimeError", <<"seeUrl step missing fragment">>)
             ELSE PageOpF("expect_url", fragment,
                          {Raise("AssertionError", <<"Page URL expected to match">>)})

\* _assert_schema(response, schema_path)
SchemaOutcomes ==
    Skip \cup Throw("OracleError", <<"Schema file not found">>)
         \cup Throw("OracleError", <<"Schema validation failed">>)

\* wait_api(page, payload["url"], payload.get("code", 200), payload.get("schema"), ...)
ExecWaitApi(p) ==
    IF p.kind # "dict" THEN Throw("TypeError", <<"indices must be integers">>)
    ELSE IF ~HasKey(p, "url") THEN Throw("KeyError", <<"'url'">>)
    ELSE Then(PageOp("wait_for_response", Get(p, "url", PyNone)),
              IF Truthy(Get(p, "schema", PyNone)) THEN SchemaOutcomes ELSE Skip)

\* run_axe(page, exclude)
ExecA11y(p) ==
    IF ~settings.axe THEN Skip
    ELSE Then(PageOp("axe_inject", <<>>),
              Then(PageOp("axe_run", <<>>),
                   Skip \cup Throw("OracleError", <<"Accessibility violations">>)))

UnknownAction(a) == Throw("RuntimeError", <<"Unknown action", " ", a>>)

\* _execute(action, payload): the set of [exc, calls] it can end with
execute(a, p) ==
    CASE a = "go" -> ExecGo(p)
      [] a = "see" -> ExecSee(p)
      [] a = "type" -> ExecType(p)
      [] a = "click" -> ExecClick(p)
      [] a = "seeUrl" -> ExecSeeUrl(p)
      [] a = "waitApi" -> ExecWaitApi(p)
      [] a = "a11y" -> ExecA11y(p)
      [] OTHER -> UnknownAction(a)

\* ---------------------------------------------------- failure diagnostics
\* snippet[:500]
ContextSee == 500

\* the limit of a see step used for every action
ContextOtherAsSee == ContextSee

\* snippet[:200]
ContextOther == 200

\* " ".join(words)
RECURSIVE JoinWords(_)
JoinWords(ws) ==
    IF ws = <<>> THEN <<>>
    ELSE IF Len(ws) = 1 THEN ws[1]
    ELSE ws[1] \o <<" ">> \o JoinWords(Tail(ws))

\* _capture_failure(index): the path, unless page.screenshot throws
ScreenshotPath(i) == <<"failure_", ToString(i), ".png">>

capture_failure(i) == PageOp("screenshot", ScreenshotPath(i))

\* _collect_context(action): the set of [value, calls]; every exception is
\* swallowed
collect_context(a) ==
    { [value |-> IF r.exc # NoExc THEN PyNone
                 ELSE LET snippet == JoinWords(Words(r.calls[1].val))
                      IN  IF ~Truthy(snippet) THEN PyNone
                          ELSE IF a = "see" THEN Prefix(snippet, ContextSee)
                          ELSE Prefix(snippet, ContextOther),
       calls |-> r.calls] : r \in InnerText }

\* ------------------------------------------------------------------ time
\* perf_counter() has no defined reference point and run() only subtracts
\* two readings taken within one flow entry: the clock counts from the
\* start of the entry being handled.
TimeoutDefault == 8000
TimeoutUrl == 15000
TimeoutApi == 20000

\* a call that times out takes its class's timeout, any other call CallMs
Cost(c) ==
    IF c.res # "TimeoutError" THEN CallMs
    ELSE CASE c.op = "expect_url" -> TimeoutUrl
           [] c.op = "wait_for_response" -> TimeoutApi
           [] OTHER -> TimeoutDefault

RECURSIVE Elapsed(_)
Elapsed(calls) == IF calls = <<>> THEN 0 ELSE Cost(Head(calls)) + Elapsed(Tail(calls))

\* int((time.perf_counter() - started_at) * 1000), the clock being in ms
DurationMs(t0, t1) == t1 - t0

\* ------------------------------------------------------------------ run
\* the configured value taken as it is
StepRetriesAsConfigured == settings.retry_step

\* self.step_retries = max(1, self.settings.retry.step)
StepRetries == Max(1, settings.retry_step)

\* range(1, self.step_retries + 2): one attempt too many
MoreAttemptsOffByOne(att) == att <= Max(1, settings.retry_step)

\* an attempt that threw is never followed by another
NoMoreAttempts(att) == FALSE

\* for attempt in range(1, self.step_retries + 1): another attempt follows
\* attempt number att
MoreAttempts(att) == att < StepRetries

\* started_at taken once, before the attempts of the entry
AttemptStartHoisted(att, previous, now) == IF att = 1 THEN now ELSE previous

\* started_at = time.perf_counter(), at the top of every attempt
AttemptStart(att, previous, now) == now

\* if attempt >= self.step_retries
IsLastAttempt(att) == att >= StepRetries

\* the `break` of the passed branch left out
BreakOnSuccessMissing == FALSE

\* `break` after the StepResult of a passed attempt
BreakOnSuccess == TRUE

\* the outer `break` left out: the loop goes on after a FAILED entry
BreakOnFailureMissing(ok) == FALSE

\* the outer `break` taken after a PASSED entry instead
BreakOnFailureInverted(ok) == ok

\* if not success: break
BreakOnFailure(ok) == ~ok

\* `status = "failed"` left out
StatusAfterFailureKept(st) == st

\* status = "failed", beside the FAILED StepResult
StatusAfterFailure(st) == "failed"

\* RunnerResult(report=report, success=status == "passed")
RunSuccess(st) == st = "passed"

\* error=attempt_error in the FAILED StepResult
RecordedError(first_error, latest_error) == latest_error

\* _normalize_step(step): len(step) != 1 raises
Malformed(step) == Len(step) # 1

StepResult(i, a, p, st, dur, err, shot, ctx) ==
    [index |-> i, action |-> a, payload |-> p, status |-> st, duration_ms |-> dur,
     error |-> err, screenshot |-> shot, context |-> ctx]

NoReturn ==
    [valid |-> FALSE, status |-> "", steps |-> <<>>, success |-> FALSE,
     meta |-> [kind |-> "none"]]

NoAttempt ==
    [index |-> 0, attempt |-> 0, action |-> "", exc |-> NoExc, calls |-> <<>>,
     t0 |-> 0, t1 |-> 0, context_calls |-> <<>>]

\* the calls made on the page handle (the comparator is no page call)
RECURSIVE PageCalls(_)
PageCalls(calls) ==
    IF calls = <<>> THEN <<>>
    ELSE (IF Head(calls).op = "comparator" THEN <<>> ELSE <<Head(calls)>>)
            \o PageCalls(Tail(calls))

Tagged(calls, i, att) ==
    LET pcs == PageCalls(calls)
    IN  [k \in 1..Len(pcs) |->
            [op |-> pcs[k].op, arg |-> pcs[k].arg, index |-> i, attempt |-> att]]

\* where run() goes once the attempts of an entry are over
AfterEntry(ok) == IF BreakOnFailure(ok) THEN "finish" ELSE "for"

AfterAttempt(att, ok) == IF MoreAttempts(att) THEN "attempt" ELSE AfterEntry(ok)

\* the payload of the step dropped
NormalizeStepNoPayload(step) == <<step[1][1], PNull>>

\* action, payload = next(iter(step.items()))
normalize_step(step) == <<step[1][1], step[1][2]>>

\* for index, step in enumerate(flow, start=1): _normalize_step(step), which
\* is called outside the try block, then the locals of the entry
BeginStep ==
    /\ pc = "for"
    /\ index < Len(flow)
    /\ index' = index + 1
    /\ IF Malformed(flow[index + 1])
       THEN /\ pc' = "raised"
            /\ raised' = Raise("RuntimeError", <<"Invalid step">>)
            /\ UNCHANGED <<action, payload, attempt, attempt_error, success,
                           clock, started_at>>
       ELSE /\ action' = normalize_step(flow[index + 1])[1]
            /\ payload' = normalize_step(flow[index + 1])[2]
            /\ attempt' = 0
            /\ attempt_error' = PyNone
            /\ success' = FALSE
            /\ clock' = 0
            /\ started_at' = 0
            /\ pc' = AfterAttempt(0, FALSE)
            /\ UNCHANGED raised
    /\ UNCHANGED <<settings, flow, results, status, pageLog, execLog,
                   lastAttempt, returned, document, scenario, exit_code, base_env>>
    /\ UNCHANGED componentVars

\* one iteration of `for attempt in range(...)`: _execute, then the PASSED
\* StepResult, or on the last attempt the diagnostics and the FAILED one
Attempt ==
    /\ pc = "attempt"
    /\ \E o \in execute(action, payload) :
         LET att == attempt + 1
             t0 == AttemptStart(att, started_at, clock)
             t1 == clock + Elapsed(o.calls)
             log1 == pageLog \o Tagged(o.calls, index, att)
             err == RecordedError(IF attempt_error = PyNone THEN o.exc.msg
                                  ELSE attempt_error, o.exc.msg)
             last(context_calls) ==
                [index |-> index, attempt |-> att, action |-> action, exc |-> o.exc,
                 calls |-> o.calls, t0 |-> clock, t1 |-> t1,
                 context_calls |-> context_calls]
         IN  /\ attempt' = att
             /\ started_at' = t0
             /\ execLog' = Append(execLog,
                                  [index |-> index, attempt |-> att, ok |-> o.exc = NoExc])
             /\ IF o.exc = NoExc
                THEN /\ results' = Append(results,
                            StepResult(index, action, payload, "passed",
                                       DurationMs(t0, t1), PyNone, PyNone, PyNone))
                     /\ success' = TRUE
                     /\ pc' = IF BreakOnSuccess THEN AfterEntry(TRUE)
                              ELSE AfterAttempt(att, TRUE)
                     /\ clock' = t1
                     /\ pageLog' = log1
                     /\ lastAttempt' = last(<<>>)
                     /\ UNCHANGED <<attempt_error, status, raised>>
                ELSE IF IsLastAttempt(att)
                THEN \E shot \in capture_failure(index), ctx \in collect_context(action) :
                       IF shot.exc # NoExc
                       THEN /\ pc' = "raised"
                            /\ raised' = shot.exc
                            /\ attempt_error' = o.exc.msg
                            /\ pageLog' = log1 \o Tagged(shot.calls, index, att)
                            /\ clock' = t1 + Elapsed(shot.calls)
                            /\ lastAttempt' = last(<<>>)
                            /\ UNCHANGED <<results, status, success>>
                       ELSE /\ results' = Append(results,
                                   StepResult(index, action, payload, "failed",
                                              DurationMs(t0, t1), err,
                                              ScreenshotPath(index), ctx.value))
                            /\ status' = StatusAfterFailure(status)
                            /\ attempt_error' = o.exc.msg
                            /\ pageLog' = log1 \o Tagged(shot.calls, index, att)
                                               \o Tagged(ctx.calls, index, att)
                            /\ clock' = t1 + Elapsed(shot.calls) + Elapsed(ctx.calls)
                            /\ pc' = AfterAttempt(att, success)
                            /\ lastAttempt' = last(ctx.calls)
                            /\ UNCHANGED <<raised, success>>
                ELSE /\ attempt_error' = o.exc.msg
                     /\ pageLog' = log1
                     /\ clock' = t1
                     /\ pc' = AfterAttempt(att, success)
                     /\ lastAttempt' = last(<<>>)
                     /\ UNCHANGED <<results, status, raised, success>>
    /\ UNCHANGED <<settings, flow, index, action, payload, returned,
                   document, scenario, exit_code, base_env>>
    /\ UNCHANGED componentVars

\* after the loop: the RunReport and the RunnerResult.  save_report and
\* render_html belong to the reporting collaborator and are taken to
\* succeed.
Finish ==
    /\ \/ pc = "finish"
       \/ pc = "for" /\ index >= Len(flow)
    /\ pc' = "done"
    /\ returned' = [valid |-> TRUE, status |-> status, steps |-> results,
                    success |-> RunSuccess(status), meta |-> scenario.meta]
    /\ UNCHANGED <<settings, flow, index, action, payload, attempt, success,
                   attempt_error, started_at, results, status, clock, pageLog,
                   execLog, lastAttempt, raised, document, scenario, exit_code,
                   base_env>>
    /\ UNCHANGED componentVars

Next == BeginStep \/ Attempt \/ Finish

\* ------------------------------------------------------- YAML documents
\* A parsed YAML value: a str, an int, null, a mapping (its items in
\* insertion order, the keys distinct) or a list.
YStr(s) == [kind |-> "str", str |-> s, n |-> 0, items |-> <<>>]
YInt(n) == [kind |-> "int", str |-> <<>>, n |-> n, items |-> <<>>]
YNull == [kind |-> "none", str |-> <<>>, n |-> 0, items |-> <<>>]
YMap(items) == [kind |-> "dict", str |-> <<>>, n |-> 0, items |-> items]
YList(items) == [kind |-> "list", str |-> <<>>, n |-> 0, items |-> items]

\* key in mapping
MapHas(m, k) == \E i \in 1..Len(m.items) : m.items[i][1] = k

\* mapping[key]
MapGet(m, k) == m.items[CHOOSE i \in 1..Len(m.items) : m.items[i][1] = k][2]

\* mapping.get(key, default)
MapGetOr(m, k, default) == IF MapHas(m, k) THEN MapGet(m, k) ELSE default

\* result[key] = value: in place for a key the dict has, appended otherwise
MapSet(items, k, v) ==
    IF \E i \in 1..Len(items) : items[i][1] = k
    THEN [i \in 1..Len(items) |-> IF items[i][1] = k THEN <<k, v>> ELSE items[i]]
    ELSE Append(items, <<k, v>>)

\* ------------------------------------------------------------ deep_merge
\* dict.update: every key of override replaces the base value
RECURSIVE UpdateItems(_, _)
UpdateItems(result, override_items) ==
    IF override_items = <<>> THEN result
    ELSE UpdateItems(MapSet(result, Head(override_items)[1], Head(override_items)[2]),
                     Tail(override_items))

ShallowMerge(base, override) == YMap(UpdateItems(base.items, override.items))

RECURSIVE deep_merge(_, _)
RECURSIVE MergeItems(_, _)
\* the loop `for key, value in override.items()` over result = dict(base)
MergeItems(result, override_items) ==
    IF override_items = <<>> THEN result
    ELSE LET key == Head(override_items)[1]
             value == Head(override_items)[2]
             current == MapGetOr(YMap(result), key, YNull)
             merged == IF /\ MapHas(YMap(result), key)
                          /\ current.kind = "dict"
                          /\ value.kind = "dict"
                       THEN deep_merge(current, value)
                       ELSE value
         IN  MergeItems(MapSet(result, key, merged), Tail(override_items))

deep_merge(base, override) == YMap(MergeItems(base.items, override.items))

\* ---------------------------------------------------------- _interpolate
\* a lexeme that is a maximal run of [A-Za-z0-9_]
IsWord(l) ==
    l \in {"baseUrl", "user", "name", "pass", "port", "home", "missing",
           "a", "b", "c", "x", "y", "ref"}

\* the (".", word) groups of TOKEN_PATTERN that start at position i
RECURSIVE SegmentsFrom(_, _)
SegmentsFrom(text, i) ==
    IF i + 1 <= Len(text) /\ text[i] = "." /\ IsWord(text[i + 1])
    THEN 1 + SegmentsFrom(text, i + 2)
    ELSE 0

\* TOKEN_PATTERN matched at position i: the number of path segments of the
\* token, 0 when there is no match
TokenAt(text, i) == IF text[i] = "$env" THEN SegmentsFrom(text, i + 1) ELSE 0

\* token.replace("$env.", "").split(".")
PathOf(token) == [k \in 1..((Len(token) - 1) \div 2) |-> token[2 * k + 1]]

\* _extract_env_value(path, env): [found, value], not found being KeyError
RECURSIVE extract_env_value(_, _)
extract_env_value(parts, current) ==
    IF parts = <<>> THEN [found |-> TRUE, value |-> current]
    ELSE IF current.kind # "dict" \/ ~MapHas(current, Head(parts))
    THEN [found |-> FALSE, value |-> YNull]
    ELSE extract_env_value(Tail(parts), MapGet(current, Head(parts)))

\* str(value); a mapping or a list gives its repr
RECURSIVE StrOf(_)
RECURSIVE ReprItems(_, _)
Repr(v) == IF v.kind = "str" THEN <<"'">> \o v.str \o <<"'">> ELSE StrOf(v)

ReprItems(items, keyed) ==
    IF items = <<>> THEN <<>>
    ELSE (IF keyed
          THEN <<"'", Head(items)[1], "'", ":", " ">> \o Repr(Head(items)[2])
          ELSE Repr(Head(items)))
            \o (IF Len(items) > 1 THEN <<",", " ">> ELSE <<>>)
            \o ReprItems(Tail(items), keyed)

StrOf(v) ==
    CASE v.kind = "str" -> v.str
      [] v.kind = "int" -> <<ToString(v.n)>>
      [] v.kind = "none" -> <<"None">>
      [] v.kind = "dict" -> <<"{">> \o ReprItems(v.items, TRUE) \o <<"}">>
      [] v.kind = "list" -> <<"[">> \o ReprItems(v.items, FALSE) \o <<"]">>

Resolved(val) == [err |-> NoExc, val |-> val]

Unresolved(exc) == [err |-> exc, val |-> <<>>]

\* an unresolvable token replaced by the empty string
MissingEnvValueBlank(token) == Resolved(<<>>)

\* an unresolvable token left in place
MissingEnvValueKept(token) == Resolved(token)

\* except KeyError: raise ScenarioError(f"Missing env value for {token}")
MissingEnvValue(token) ==
    Unresolved(Raise("ScenarioError", <<"Missing env value for", " ">> \o token))

\* TOKEN_PATTERN.sub(replacer, text) from position i on: [err, val]
RECURSIVE InterpolateFrom(_, _, _)
InterpolateFrom(text, i, env) ==
    IF i > Len(text) THEN Resolved(<<>>)
    ELSE LET n == TokenAt(text, i)
             token == SubSeq(text, i, i + 2 * n)
             got == extract_env_value(PathOf(token), env)
             here == IF n = 0 THEN Resolved(<<text[i]>>)
                     ELSE IF got.found THEN Resolved(StrOf(got.value))
                     ELSE MissingEnvValue(token)
             rest == InterpolateFrom(text, i + 2 * n + 1, env)
         IN  IF here.err # NoExc THEN here
             ELSE IF rest.err # NoExc THEN rest
             ELSE Resolved(here.val \o rest.val)

\* the text returned as it is
InterpolateNothing(text, env) == Resolved(text)

\* the substituted text scanned a second time
InterpolateAgain(text, env) ==
    LET once == InterpolateFrom(text, 1, env)
    IN  IF once.err # NoExc THEN once ELSE InterpolateFrom(once.val, 1, env)

\* _interpolate(text, env)
interpolate(text, env) == InterpolateFrom(text, 1, env)

\* ------------------------------------------------------- _resolve_value
RECURSIVE resolve_value(_, _)
RECURSIVE ResolveAll(_, _, _)
\* the comprehension over the items of a mapping (keyed: the keys are kept
\* as they are) or of a list; the first error ends it
ResolveAll(items, env, keyed) ==
    IF items = <<>> THEN Resolved(<<>>)
    ELSE LET h == resolve_value(IF keyed THEN Head(items)[2] ELSE Head(items), env)
             t == ResolveAll(Tail(items), env, keyed)
         IN  IF h.err # NoExc THEN Unresolved(h.err)
             ELSE IF t.err # NoExc THEN t
             ELSE Resolved(<<IF keyed THEN <<Head(items)[1], h.val>> ELSE h.val>> \o t.val)

\* _resolve_value(value, env): [err, val]
resolve_value(value, env) ==
    CASE value.kind = "dict" ->
            LET r == ResolveAll(value.items, env, TRUE)
            IN  IF r.err # NoExc THEN r ELSE Resolved(YMap(r.val))
      [] value.kind = "list" ->
            LET r == ResolveAll(value.items, env, FALSE)
            IN  IF r.err # NoExc THEN r ELSE Resolved(YList(r.val))
      [] value.kind = "str" ->
            LET r == interpolate(value.str, env)
            IN  IF r.err # NoExc THEN r ELSE Resolved(YStr(r.val))
      [] OTHER -> Resolved(value)

\* the steps resolved from the last one to the first
ResolveFlowReversed(raw_flow, env) ==
    ResolveAll([i \in 1..Len(raw_flow.items) |->
                    raw_flow.items[Len(raw_flow.items) + 1 - i]], env, FALSE)

\* _resolve_flow(flow, env): [err, val], val the list of resolved steps
resolve_flow(raw_flow, env) == ResolveAll(raw_flow.items, env, FALSE)

\* -------------------------------------------------------- load_scenario
\* the scenario path names no file
NoFile == [kind |-> "nofile", str |-> <<>>, n |-> 0, items |-> <<>>]

\* no scenario file is involved: the runner is given a Scenario directly
NoDocument == [kind |-> "nodocument", str |-> <<>>, n |-> 0, items |-> <<>>]

NoScenario == [err |-> NoExc, meta |-> YMap(<<>>), env |-> YMap(<<>>), flow |-> <<>>]

NoExit == -1

\* raw = yaml.safe_load(handle) or {}
RawOf(doc) == IF doc.kind = "dict" /\ doc.items # <<>> THEN doc ELSE YMap(<<>>)

ScenarioError(msg) ==
    [err |-> Raise("ScenarioError", msg), meta |-> YMap(<<>>), env |-> YMap(<<>>),
     flow |-> <<>>]

\* a document without a flow taken for one with an empty flow
MissingFlowNever(raw) == FALSE

\* "flow" not in raw
MissingFlow(raw) == ~MapHas(raw, "flow")

\* the document's env block merged first, the base env over it
MergedEnvBaseLast(base, raw) ==
    deep_merge(MapGetOr(raw, "env", YMap(<<>>)), base)

\* env = {}; if base_env: env = deep_merge(env, base_env);
\* env = deep_merge(env, raw.get("env", {}))
merged_env(base, raw) ==
    LET env0 == IF base.items # <<>> THEN deep_merge(YMap(<<>>), base)
                ELSE YMap(<<>>)
    IN  deep_merge(env0, MapGetOr(raw, "env", YMap(<<>>)))

\* load_scenario(path, base_env): [err, meta, env, flow]
load_scenario(doc, base) ==
    LET raw == RawOf(doc)
        env == merged_env(base, raw)
        resolved == resolve_flow(MapGetOr(raw, "flow", YList(<<>>)), env)
    IN  IF doc = NoFile THEN ScenarioError(<<"Scenario file not found">>)
        ELSE IF MissingFlow(raw) THEN ScenarioError(<<"Scenario missing 'flow'">>)
        ELSE IF resolved.err # NoExc
        THEN [err |-> resolved.err, meta |-> YMap(<<>>), env |-> YMap(<<>>), flow |-> <<>>]
        ELSE [err |-> NoExc, meta |-> MapGetOr(raw, "meta", YMap(<<>>)), env |-> env,
              flow |-> resolved.val]

\* base_env: Dict[str, Any] = {"baseUrl": settings.base_url}
BaseEnv == YMap(<< <<"baseUrl", YStr(settings.base_url)>> >>)

\* a resolved payload as _execute reads it: a str, a mapping from keys to
\* strings (a value that is no string is opaque to the handlers), a list
AsPayload(v) ==
    CASE v.kind = "str" -> PStr(v.str)
      [] v.kind = "dict" ->
            PDict({ <<v.items[i][1],
                      IF v.items[i][2].kind = "str" THEN v.items[i][2].str
                      ELSE <<"<", v.items[i][2].kind, ">">> >> : i \in 1..Len(v.items) })
      [] v.kind = "list" -> PList
      [] OTHER -> PNull

\* a resolved step as run() reads it: the items of the mapping
AsEntry(step) ==
    [i \in 1..Len(step.items) |-> <<step.items[i][1], AsPayload(step.items[i][2])>>]

\* main(), the scenario-file branch: load_scenario; a ScenarioError is
\* printed and main returns 2, otherwise _execute_run hands the Scenario to
\* ScenarioRunner.run
LoadScenario ==
    /\ pc = "load"
    /\ LET loaded == load_scenario(document, base_env)
       IN  /\ scenario' = loaded
           /\ IF loaded.err # NoExc
              THEN /\ pc' = "exit"
                   /\ exit_code' = 2
                   /\ UNCHANGED flow
              ELSE /\ pc' = "for"
                   /\ flow' = [i \in 1..Len(loaded.flow) |-> AsEntry(loaded.flow[i])]
                   /\ UNCHANGED exit_code
    /\ UNCHANGED <<settings, index, action, payload, attempt, success,
                   attempt_error, started_at, results, status, clock, pageLog,
                   execLog, lastAttempt, returned, raised, document, base_env>>
    /\ UNCHANGED componentVars

NextLoad == LoadScenario \/ BeginStep \/ Attempt \/ Finish

\* ---------------------------------------------------------------- inputs
Step(a, p) == << <<a, p>> >>

RECURSIVE SeqsUpTo(_, _)
SeqsUpTo(S, n) ==
    IF n = 0 THEN {<<>>}
    ELSE LET shorter == SeqsUpTo(S, n - 1)
         IN  shorter \cup {Append(q, x) : q \in {r \in shorter : Len(r) = n - 1}, x \in S}

BaseUrl == <<"https://", "app.test">>

SettingsWith(retries, hosts, axe, comparator) ==
    [base_url |-> BaseUrl, allowed_hosts |-> hosts, retry_step |-> retries,
     axe |-> axe, comparator |-> comparator]

\* the state after ScenarioRunner(settings, scenario, page), as run() starts
InitWith(flows, settingsSet) ==
    /\ ComponentsIdle
    /\ settings \in settingsSet
    /\ flow \in flows
    /\ pc = "for"
    /\ index = 0
    /\ action = ""
    /\ payload = PNull
    /\ attempt = 0
    /\ success = FALSE
    /\ attempt_error = PyNone
    /\ started_at = 0
    /\ results = <<>>
    /\ status = "passed"
    /\ clock = 0
    /\ pageLog = <<>>
    /\ execLog = <<>>
    /\ lastAttempt = NoAttempt
    /\ returned = NoReturn
    /\ raised = NoExc
    /\ document = NoDocument
    /\ scenario = NoScenario
    /\ exit_code = NoExit
    /\ base_env = YMap(<<>>)

\* flows over one step of each kind the loop of run() distinguishes: one
\* that can pass or throw, one that always throws, and the two malformed
\* shapes
CoreSteps ==
    { Step("go", PStr(<<"/home">>)),
      Step("hover", PStr(<<"#", "menu">>)),
      <<>>,
      << <<"go", PStr(<<"/home">>)>>, <<"click", PStr(<<"#", "save">>)>> >> }

CoreSettings ==
    {SettingsWith(r, {<<"app.test">>}, FALSE, FALSE) : r \in (-1)..MaxRetry}

Init == InitWith(SeqsUpTo(CoreSteps, MaxFlow), CoreSettings)

Spec == Init /\ [][Next]_vars

\* flows over every action kind and payload shape _execute distinguishes
GoSteps ==
    { Step("go", PStr(<<"/home">>)),
      Step("go", PStr(<<"http://", "evil.test", "/x">>)),
      Step("go", PStr(<<"https://", "App.Test", "/home">>)),
      Step("go", PDict({<<"path", <<"//", "cdn.test", "/lib">>>>})),
      Step("go", PDict({})),
      Step("go", PList) }

SeeSteps ==
    { Step("see", PStr(<<"Welcome", " ", "back">>)),
      Step("see", PDict({<<"text", <<"Welcome">>>>,
                         <<"meaning", <<"user", " ", "logged", " ", "in">>>>})),
      Step("see", PDict({<<"meaning", <<"Logged", " ", "in", "!">>>>})),
      Step("see", PDict({<<"text", <<>>>>, <<"expected", <<"logged">>>>,
                         <<"selector", <<"#", "status">>>>})),
      Step("see", PDict({})),
      Step("see", PNull) }

LocatorSteps ==
    { Step("click", PStr(<<"text", "=", "Save", "|", " ", "#", "save">>)),
      Step("click", PDict({<<"on", <<"role", "=", "[", "button", "]">>>>})),
      Step("click", PDict({})),
      Step("type", PDict({<<"into", <<"#", "name">>>>, <<"text", <<"user">>>>})),
      Step("type", PDict({<<"text", <<"user">>>>})),
      Step("type", PStr(<<"user">>)) }

OtherSteps ==
    { Step("seeUrl", PStr(<<"/home">>)),
      Step("seeUrl", PDict({<<"value", <<"/home">>>>})),
      Step("seeUrl", PDict({})),
      Step("waitApi", PDict({<<"url", <<"/api/*">>>>})),
      Step("waitApi", PDict({<<"url", <<"/api/*">>>>, <<"schema", <<"s.json">>>>})),
      Step("waitApi", PStr(<<"/api/*">>)),
      Step("a11y", PNull),
      Step("a11y", PDict({<<"exclude", <<"#", "menu">>>>})),
      Step("hover", PStr(<<"#", "menu">>)) }

ActionSteps == GoSteps \cup SeeSteps \cup LocatorSteps \cup OtherSteps

\* one entry of any shape, alone or after an entry that can pass
ActionFlows ==
    {<<s>> : s \in ActionSteps}
        \cup {<<Step("go", PStr(<<"/home">>)), s>> : s \in ActionSteps}

ActionSettings ==
    {SettingsWith(r, h, x, x) :
        r \in {1, 2}, h \in {{<<"app.test">>}, {<<"app.test">>, <<"cdn.test">>}},
        x \in BOOLEAN}

InitActions == InitWith(ActionFlows, ActionSettings)

SpecActions == InitActions /\ [][Next]_vars

\* scenario files: steps, flows, env blocks and documents
YStep(a, p) == YMap(<< <<a, p>> >>)

GoHome == YStep("go", YStr(<<"/home">>))

\* steps whose tokens the env blocks below resolve
LoadableSteps ==
    { GoHome,
      YStep("go", YStr(<<"$env", ".", "baseUrl", "/home">>)),
      YStep("hover", YStr(<<"#", "menu">>)),
      YStep("see", YMap(<< <<"text", YStr(<<"Welcome", " ", "$env", ".", "user", ".", "name">>)>> >>)),
      YStep("$env.missing", YStr(<<"/home">>)) }

\* steps with a token that is resolved by some env blocks only, or by none:
\* in a str payload, in a value of a mapping, in a list inside a mapping,
\* with a path that runs into a scalar
TokenSteps ==
    { YStep("go", YStr(<<"/", "$env", ".", "missing">>)),
      YStep("see", YMap(<< <<"text", YStr(<<"Welcome">>)>>,
                           <<"meaning", YStr(<<"$env", ".", "user", ".", "pass">>)>> >>)),
      YStep("a11y", YMap(<< <<"exclude", YList(<<YStr(<<"#", "menu">>),
                                                 YStr(<<"$env", ".", "missing">>)>>)>> >>)),
      YStep("go", YStr(<<"$env", ".", "baseUrl", ".", "port">>)) }

DocFlows ==
    {<<>>}
        \cup {<<a>> : a \in LoadableSteps \cup TokenSteps}
        \cup {<<a, b>> : a \in {GoHome}, b \in LoadableSteps \cup TokenSteps}
        \cup {<<a, GoHome>> : a \in TokenSteps}

DocEnvs ==
    { YMap(<<>>),
      YMap(<< <<"user", YMap(<< <<"name", YStr(<<"Ann">>)>> >>)>> >>),
      YMap(<< <<"user", YMap(<< <<"name", YStr(<<"Ann">>)>>,
                                <<"pass", YStr(<<"logged", " ", "in">>)>> >>)>>,
              <<"missing", YInt(7)>> >>) }

Documents ==
    { NoFile, YNull,
      YMap(<< <<"meta", YMap(<< <<"name", YStr(<<"login">>)>> >>)>>,
              <<"env", YMap(<< <<"user", YStr(<<"Ann">>)>> >>)>> >>) }
        \cup { YMap(<< <<"env", e>>, <<"flow", YList(f)>> >>) : e \in DocEnvs, f \in DocFlows }

\* the state as main() is about to load the scenario file
InitLoad ==
    /\ ComponentsIdle
    /\ settings \in {SettingsWith(r, {<<"app.test">>}, FALSE, FALSE) : r \in {1, 2}}
    /\ document \in Documents
    /\ flow = <<>>
    /\ pc = "load"
    /\ index = 0
    /\ action = ""
    /\ payload = PNull
    /\ attempt = 0
    /\ success = FALSE
    /\ attempt_error = PyNone
    /\ started_at = 0
    /\ results = <<>>
    /\ status = "passed"
    /\ clock = 0
    /\ pageLog = <<>>
    /\ execLog = <<>>
    /\ lastAttempt = NoAttempt
    /\ returned = NoReturn
    /\ raised = NoExc
    /\ scenario = NoScenario
    /\ exit_code = NoExit
    /\ base_env = BaseEnv

SpecLoad == InitLoad /\ [][NextLoad]_vars

\* ---- load_scenario called with a base_env of the caller's
\* what a caller passes as base_env
BaseEnvs ==
    { YMap(<<>>),
      YMap(<< <<"a", YMap(<< <<"x", YInt(1)>> >>)>> >>),
      YMap(<< <<"a", YInt(1)>> >>),
      YMap(<< <<"a", YMap(<< <<"b", YStr(<<"base">>)>> >>)>>,
              <<"user", YMap(<< <<"name", YStr(<<"Ann">>)>> >>)>> >>),
      YMap(<< <<"a", YMap(<< <<"b", YMap(<< <<"c", YInt(1)>> >>)>>,
                             <<"x", YInt(1)>> >>)>> >>) }

\* the env blocks of the documents; two of them hold a value with token text
LoaderEnvs ==
    { YMap(<< <<"a", YMap(<< <<"y", YInt(2)>> >>)>> >>),
      YMap(<< <<"a", YMap(<< <<"b", YInt(2)>> >>)>> >>),
      YMap(<< <<"a", YMap(<< <<"b", YStr(<<"x">>)>> >>)>> >>),
      YMap(<< <<"a", YStr(<<"x">>)>> >>),
      YMap(<< <<"a", YMap(<< <<"b", YMap(<< <<"y", YInt(2)>> >>)>> >>)>>,
              <<"user", YStr(<<"Ann">>)>> >>),
      YMap(<< <<"ref", YStr(<<"$env", ".", "a", ".", "b">>)>>,
              <<"a", YMap(<< <<"b", YStr(<<"x">>)>> >>)>> >>),
      YMap(<< <<"ref", YStr(<<"<", "$env", ".", "a", ".", "c", ">">>)>> >>) }

\* steps with tokens: a whole payload, several in one string, in a list and
\* a mapping inside a mapping (one key has token text), a value that holds
\* token text, a path that ends at a mapping, a path that runs on
LoaderSteps ==
    { YStep("note", YStr(<<"$env", ".", "a", ".", "b">>)),
      YStep("note", YStr(<<"see", " ", "$env", ".", "a", ".", "b", " ", "and", " ",
                           "$env", ".", "user", ".", "name", "!">>)),
      YStep("note", YMap(<< <<"items", YList(<< YStr(<<"$env", ".", "a", ".", "b">>),
                                                 YInt(7),
                                                 YMap(<< <<"deep", YStr(<<"<", "$env", ".", "a", ".", "x", ">">>)>> >>) >>)>>,
                            <<"$env.a.b", YStr(<<"plain">>)>> >>)),
      YStep("note", YStr(<<"$env", ".", "ref">>)),
      YStep("note", YStr(<<"$env", ".", "a">>)),
      YStep("note", YStr(<<"$env", ".", "a", ".", "b", ".", "c">>)) }

LoaderFlows ==
    {<<s>> : s \in LoaderSteps \cup {GoHome}}
        \cup {<<GoHome, s>> : s \in LoaderSteps}
        \cup {<<s, GoHome>> : s \in LoaderSteps}

LoaderMetas ==
    { YMap(<< <<"name", YStr(<<"login">>)>> >>),
      YMap(<< <<"name", YStr(<<"login", " ", "$env", ".", "a", ".", "b">>)>>,
              <<"tags", YList(<<YStr(<<"$env", ".", "user", ".", "name">>)>>)>> >>) }

\* a document: a mapping of the keys given, in the order meta, env, flow
DocOf(keys, meta, env, raw_flow) ==
    YMap(SelectSeq(<< <<"meta", meta>>, <<"env", env>>, <<"flow", YList(raw_flow)>> >>,
                   LAMBDA item : item[1] \in keys))

LoaderDocuments ==
    { DocOf(keys, m, e, f) :
        keys \in {{"flow"}, {"env", "flow"}, {"meta", "env", "flow"}},
        m \in LoaderMetas, e \in LoaderEnvs, f \in LoaderFlows }
      \cup { DocOf(keys, m, e, <<>>) :
                keys \in SUBSET {"meta", "env"}, m \in LoaderMetas, e \in LoaderEnvs }

\* the state as a caller is about to load a scenario file with its base_env
InitLoader ==
    /\ ComponentsIdle
    /\ settings = SettingsWith(1, {<<"app.test">>}, FALSE, FALSE)
    /\ document \in LoaderDocuments
    /\ base_env \in BaseEnvs
    /\ flow = <<>>
    /\ pc = "load"
    /\ index = 0
    /\ action = ""
    /\ payload = PNull
    /\ attempt = 0
    /\ success = FALSE
    /\ attempt_error = PyNone
    /\ started_at = 0
    /\ results = <<>>
    /\ status = "passed"
    /\ clock = 0
    /\ pageLog = <<>>
    /\ execLog = <<>>
    /\ lastAttempt = NoAttempt
    /\ returned = NoReturn
    /\ raised = NoExc
    /\ scenario = NoScenario
    /\ exit_code = NoExit

SpecLoader == InitLoader /\ [][NextLoad]_vars

\* locator expressions: fallback chains in and out of priority order, equal
\* priorities, blank parts, a role candidate that does not parse, markers in
\* the middle of a candidate
LocatorExprs ==
    { <<"#", "missing", "|", "#", "real">>,
      <<"#", "gone", " ", "|", " ", "text", "=", "Save", " ", "|", ".", "item">>,
      <<"#", "a", "|", "text", "=", "b", "|", ".", "c">>,
      <<".", "c", "|", "text", "=", "b", "|", "#", "a">>,
      <<"role", "=", "[", "button", "]", "|", "#", "save">>,
      <<"text", "=", "#", "1", "|", "[", "name", "=", "user", "]">>,
      <<"ul", " ", "#", "list", " ", "li", ":", "nth-child", "(", "2", ")", "|", ".", "item">>,
      <<"li", ":", "nth-child", "(", "2", ")", "|", ".", "item", "|",
        "[", "data-testid", "=", "save", "]">>,
      <<"#", "save", "|", "#", "a">>,
      <<"|", "#", "a", "|", " ">>,
      <<"[", "placeholder", "=", "name", "]", "|", "role", "=", "button">>,
      <<".", "c", " ", "|", "#", "b", "|", " ", ".", "a", "|", "#", "b">>,
      <<" ", "|", " ">> }

LocatorFlows ==
    {<<Step("click", PStr(e))>> : e \in LocatorExprs}
        \cup {<<Step("type", PDict({<<"into", e>>, <<"text", <<"user">>>>}))>> :
                 e \in {<<"#", "missing", "|", "#", "real">>, <<"|", "#", "a", "|", " ">>}}

InitLocators ==
    InitWith(LocatorFlows, {SettingsWith(1, {<<"app.test">>}, FALSE, FALSE)})

SpecLocators == InitLocators /\ [][Next]_vars

\* see steps: the literal path, and expectations the fallback matches by
\* substring, by its first tokens, through the status selector, vacuously,
\* or not at all
SeeExprs ==
    { PStr(<<"Welcome", " ", "back">>),
      PDict({<<"text", <<"Welcome">>>>, <<"meaning", <<"user", " ", "logged", " ", "in">>>>}),
      PDict({<<"meaning", <<"Welcome", " ", "back">>>>}),
      PDict({<<"meaning", <<"Logged", " ", "in", "!">>>>}),
      PDict({<<"text", <<>>>>, <<"expected", <<"logged">>>>, <<"selector", <<"#", "status">>>>}),
      PDict({<<"expected", <<"Logged", " ", "out">>>>, <<"selector", <<"#", "status">>>>}),
      PDict({<<"description", <<"user", " ", "back">>>>}),
      PDict({<<"meaning", <<"goodbye">>>>}),
      PDict({<<"meaning", <<"!">>>>}),
      PDict({<<"meaning", <<" ">>>>}) }

InitSee ==
    InitWith({<<Step("see", p)>> : p \in SeeExprs},
             {SettingsWith(1, {<<"app.test">>}, FALSE, c) : c \in BOOLEAN})

SpecSee == InitSee /\ [][Next]_vars

\* ------------------------------------------------ dicts as heap objects
\* A dict is an object on the heap: a cell holding its items in insertion
\* order, each value a scalar or the address of another dict.  A name bound
\* to a dict holds its address; item assignment changes the cell, and every
\* name and every item that holds the address sees the change.
Ref(a) == [kind |-> "ref", str |-> <<>>, n |-> a, items |-> <<>>]

MaxMerges == 2

\* the heap after the dict `value` was parsed onto it, and the dict's address
RECURSIVE Alloc(_, _)
RECURSIVE AllocItems(_, _, _)
AllocItems(h, items, done) ==
    IF items = <<>> THEN [heap |-> h, items |-> done]
    ELSE LET key == Head(items)[1]
             value == Head(items)[2]
         IN  IF value.kind = "dict"
             THEN LET sub == Alloc(h, value)
                  IN  AllocItems(sub.heap, Tail(items),
                                 Append(done, <<key, Ref(sub.addr)>>))
             ELSE AllocItems(h, Tail(items), Append(done, <<key, value>>))

Alloc(h, value) ==
    LET built == AllocItems(h, value.items, <<>>)
    IN  [heap |-> Append(built.heap, built.items), addr |-> Len(built.heap) + 1]

\* the dict at address a as a value, read through every address it holds
RECURSIVE Deref(_, _)
Deref(h, a) ==
    YMap([i \in 1..Len(h[a]) |->
            <<h[a][i][1],
              IF h[a][i][2].kind = "ref" THEN Deref(h, h[a][i][2].n)
              ELSE h[a][i][2]>>])

\* result = base
DictAlias(h, base) == [heap |-> h, addr |-> base]

\* result = dict(base): a new dict with the items of base
DictCopy(h, base) == [heap |-> Append(h, h[base]), addr |-> Len(h) + 1]

\* result[key] = value
SetItem(h, result, key, value) == [h EXCEPT ![result] = MapSet(h[result], key, value)]

\* deep_merge(base, override) on the heap: the heap it leaves and the
\* address of the dict it returns
RECURSIVE DeepMergeAt(_, _, _)
RECURSIVE MergeItemsAt(_, _, _)
MergeItemsAt(h, result, override_items) ==
    IF override_items = <<>> THEN h
    ELSE LET key == Head(override_items)[1]
             value == Head(override_items)[2]
             current == MapGetOr(YMap(h[result]), key, YNull)
         IN  IF /\ MapHas(YMap(h[result]), key)
                /\ current.kind = "ref"
                /\ value.kind = "ref"
             THEN LET sub == DeepMergeAt(h, current.n, value.n)
                  IN  MergeItemsAt(SetItem(sub.heap, result, key, Ref(sub.addr)),
                                   result, Tail(override_items))
             ELSE MergeItemsAt(SetItem(h, result, key, value),
                               result, Tail(override_items))

DeepMergeAt(h, base, override) ==
    LET result == DictCopy(h, base)
    IN  [heap |-> MergeItemsAt(result.heap, result.addr, h[override]),
         addr |-> result.addr]

\* load_scenario builds the env of one more scenario from the caller's
\* base_env: env = {}; if base_env: env = deep_merge(env, base_env);
\* env = deep_merge(env, raw.get("env", {}))
MergeEnv ==
    /\ Len(merges) < MaxMerges
    /\ \E given \in LoaderEnvs :
            LET raw == Alloc(heap, given)
                empty == [heap |-> Append(raw.heap, <<>>), addr |-> Len(raw.heap) + 1]
                first == IF heap[base_ref] # <<>>
                         THEN DeepMergeAt(empty.heap, empty.addr, base_ref)
                         ELSE empty
                second == DeepMergeAt(first.heap, first.addr, raw.addr)
            IN  /\ heap' = second.heap
                /\ merges' = Append(merges, [given |-> given, override |-> raw.addr,
                                             env |-> second.addr])
    /\ UNCHANGED <<base_ref, runnerVars, cacheVars, mainVars, agentVars>>

NextMerge == MergeEnv

\* no run, no scenario file: the runner's state where only base_env counts
RunnerIdle ==
    /\ settings = SettingsWith(1, {<<"app.test">>}, FALSE, FALSE)
    /\ document = NoDocument
    /\ flow = <<>>
    /\ pc = "idle"
    /\ index = 0
    /\ action = ""
    /\ payload = PNull
    /\ attempt = 0
    /\ success = FALSE
    /\ attempt_error = PyNone
    /\ started_at = 0
    /\ results = <<>>
    /\ status = "passed"
    /\ clock = 0
    /\ pageLog = <<>>
    /\ execLog = <<>>
    /\ lastAttempt = NoAttempt
    /\ returned = NoReturn
    /\ raised = NoExc
    /\ scenario = NoScenario

\* the caller holds its base_env, a dict on the heap, and no scenario has
\* been loaded yet
InitMerge ==
    /\ RunnerIdle
    /\ exit_code = NoExit
    /\ CacheIdle
    /\ MainIdle
    /\ AgentIdle
    /\ base_env \in BaseEnvs
    /\ heap = Alloc(<<>>, base_env).heap
    /\ base_ref = Alloc(<<>>, base_env).addr
    /\ merges = <<>>

SpecMerge == InitMerge /\ [][NextMerge]_vars

\* ------------------------------------- NaturalLanguageOrchestrator cache
\* _dom_cache is a dict url -> (snapshot, timestamp): a set of entries, at
\* most one for a url.
DomCacheTtl == 300

MaxCalls == 4
MaxTime == 450

\* url in self._dom_cache
InCache(cache, url) == \E e \in cache : e.url = url

\* self._dom_cache[url]
CacheEntry(cache, url) == CHOOSE e \in cache : e.url = url

\* time.time() - timestamp <= self._dom_cache_ttl
FreshAtTtl(age) == age <= DomCacheTtl

\* time.time() - timestamp < self._dom_cache_ttl
Fresh(age) == age < DomCacheTtl

\* get_cached_dom(url) at time t: what it returns and the cache it leaves
get_cached_dom(cache, url, t) ==
    IF InCache(cache, url)
    THEN LET entry == CacheEntry(cache, url)
         IN  IF Fresh(t - entry.timestamp)
             THEN [result |-> entry.snapshot, cache |-> cache]
             ELSE [result |-> PyNone, cache |-> cache \ {entry}]
    ELSE [result |-> PyNone, cache |-> cache]

\* cache_dom(url, snapshot) at time t: the cache it leaves
cache_dom(cache, url, snapshot, t) ==
    {e \in cache : e.url # url}
        \cup {[url |-> url, snapshot |-> snapshot, timestamp |-> t]}

CacheCall(op, url, snapshot, result) ==
    [op |-> op, url |-> url, snapshot |-> snapshot, time |-> time, result |-> result]

\* the urls and the snapshots of the calls; one url is a prefix of the other
CacheUrls == {BaseUrl, BaseUrl \o <<"/", "login">>}

Snapshots == {<<"#", "user">>, <<"#", "status">>}

GetCachedDom ==
    /\ Len(lookups) < MaxCalls
    /\ \E url \in CacheUrls :
            LET got == get_cached_dom(dom_cache, url, time)
            IN  /\ dom_cache' = got.cache
                /\ lookups' = Append(lookups,
                                     CacheCall("get_cached_dom", url, PyNone, got.result))
    /\ UNCHANGED <<time, runnerVars, mergeVars, mainVars, agentVars>>

CacheDom ==
    /\ Len(lookups) < MaxCalls
    /\ \E url \in CacheUrls, snapshot \in Snapshots :
            /\ dom_cache' = cache_dom(dom_cache, url, snapshot, time)
            /\ lookups' = Append(lookups, CacheCall("cache_dom", url, snapshot, PyNone))
    /\ UNCHANGED <<time, runnerVars, mergeVars, mainVars, agentVars>>

\* time.time() moves on between two calls
TimePasses ==
    /\ \E d \in {DomCacheTtl \div 2, DomCacheTtl \div 2 - 1} :
            /\ time + d <= MaxTime
            /\ time' = time + d
    /\ UNCHANGED <<dom_cache, lookups, runnerVars, mergeVars, mainVars, agentVars>>

NextCache == GetCachedDom \/ CacheDom \/ TimePasses

\* NaturalLanguageOrchestrator(settings) has just been constructed
InitCache ==
    /\ RunnerIdle
    /\ exit_code = NoExit
    /\ base_env = BaseEnv
    /\ MergeIdle
    /\ CacheIdle
    /\ MainIdle
    /\ AgentIdle

SpecCache == InitCache /\ [][NextCache]_vars

\* ---------------------------------------------------------------- main()
\* The run command.  The collaborators main() calls are taken by what they
\* give back: a value, the error main() catches, or another exception
\* ("error": yaml.YAMLError on a malformed file, ValueError from int() on a
\* non-numeric setting, a browser that does not start, a run() that raises).
MaxNlAttempts == 2

Gave(call, gave) == [call |-> call, gave |-> gave]

\* settings = load_settings(args.config); ConfigError is printed, return 2
LoadSettings ==
    /\ main_pc = "settings"
    /\ \E gave \in {"ok", "ConfigError", "error"} :
            /\ mainLog' = Append(mainLog, Gave("load_settings", gave))
            /\ CASE gave = "ok" -> main_pc' = "prompt" /\ UNCHANGED exit_code
                 [] gave = "ConfigError" -> main_pc' = "exit" /\ exit_code' = 2
                 [] OTHER -> main_pc' = "raised" /\ exit_code' = 1
    /\ UNCHANGED <<args, nl_builder, main_attempt, main_success>>
    /\ UNCHANGED <<runVars, mergeVars, cacheVars, agentVars>>

\* nl_prompt = _read_nl_prompt(...), then the branch on --dynamic, on the
\* prompt and on --scenario; parser.error ends the process with status 2
ReadPrompt ==
    /\ main_pc = "prompt"
    /\ IF args.nl = "nofile"
       THEN /\ mainLog' = Append(mainLog, Gave("_read_nl_prompt", "error"))
            /\ main_pc' = "raised"
            /\ exit_code' = 1
       ELSE IF (args.dynamic /\ args.nl = "none")
                 \/ (~args.dynamic /\ args.nl = "none" /\ ~args.scenario)
       THEN /\ mainLog' = Append(mainLog, Gave("parser.error", "exit"))
            /\ main_pc' = "exit"
            /\ exit_code' = 2
       ELSE /\ main_pc' = IF args.dynamic THEN "dynamic"
                          ELSE IF args.nl # "none" THEN "build" ELSE "load"
            /\ UNCHANGED <<mainLog, exit_code>>
    /\ UNCHANGED <<args, nl_builder, main_attempt, main_success>>
    /\ UNCHANGED <<runVars, mergeVars, cacheVars, agentVars>>

\* the dynamic branch: agent.execute_goal(nl_prompt) in a browser session;
\* return 0 if result['status'] == 'success' else 1
DynamicRun ==
    /\ main_pc = "dynamic"
    /\ \E gave \in {"success", "failed", "error", "timeout", "raised"} :
            /\ mainLog' = Append(mainLog, Gave("execute_goal", gave))
            /\ main_pc' = IF gave = "raised" THEN "raised" ELSE "exit"
            /\ exit_code' = IF gave = "success" THEN 0 ELSE 1
    /\ UNCHANGED <<args, nl_builder, main_attempt, main_success>>
    /\ UNCHANGED <<runVars, mergeVars, cacheVars, agentVars>>

\* generated = builder.build(nl_prompt, base_env, ...); ScenarioError is
\* printed, return 2; otherwise nl_builder = builder and attempt = 1
BuildScenario ==
    /\ main_pc = "build"
    /\ \E gave \in {"ok", "ScenarioError"} :
            /\ mainLog' = Append(mainLog, Gave("build", gave))
            /\ IF gave = "ok"
               THEN /\ main_pc' = "execute"
                    /\ nl_builder' = TRUE
                    /\ main_attempt' = 1
                    /\ UNCHANGED exit_code
               ELSE /\ main_pc' = "exit"
                    /\ exit_code' = 2
                    /\ UNCHANGED <<nl_builder, main_attempt>>
    /\ UNCHANGED <<args, main_success>>
    /\ UNCHANGED <<runVars, mergeVars, cacheVars, agentVars>>

\* scenario = load_scenario(args.scenario, base_env=base_env);
\* ScenarioError is printed, return 2; otherwise attempt = 1
LoadFile ==
    /\ main_pc = "load"
    /\ \E gave \in {"ok", "ScenarioError", "error"} :
            /\ mainLog' = Append(mainLog, Gave("load_scenario", gave))
            /\ CASE gave = "ok" ->
                        /\ main_pc' = "execute"
                        /\ main_attempt' = 1
                        /\ UNCHANGED exit_code
                 [] gave = "ScenarioError" ->
                        /\ main_pc' = "exit"
                        /\ exit_code' = 2
                        /\ UNCHANGED main_attempt
                 [] OTHER ->
                        /\ main_pc' = "raised"
                        /\ exit_code' = 1
                        /\ UNCHANGED main_attempt
    /\ UNCHANGED <<args, nl_builder, main_success>>
    /\ UNCHANGED <<runVars, mergeVars, cacheVars, agentVars>>

\* if not nl_builder or attempt >= max_nl_attempts: break
LastAttempt == ~nl_builder \/ main_attempt >= MaxNlAttempts

\* the head of the loop: success, report, scenario_name = _execute_run(...),
\* the two breaks, attempt += 1
ExecuteRun ==
    /\ main_pc = "execute"
    /\ \E gave \in {"passed", "failed", "raised"} :
            /\ mainLog' = Append(mainLog, Gave("_execute_run", gave))
            /\ CASE gave = "passed" ->
                        /\ main_success' = TRUE
                        /\ main_pc' = "return"
                        /\ UNCHANGED <<main_attempt, exit_code>>
                 [] gave = "failed" ->
                        /\ main_success' = FALSE
                        /\ main_pc' = IF LastAttempt THEN "return" ELSE "replan"
                        /\ main_attempt' = IF LastAttempt THEN main_attempt
                                           ELSE main_attempt + 1
                        /\ UNCHANGED exit_code
                 [] OTHER ->
                        /\ main_pc' = "raised"
                        /\ exit_code' = 1
                        /\ UNCHANGED <<main_success, main_attempt>>
    /\ UNCHANGED <<args, nl_builder>>
    /\ UNCHANGED <<runVars, mergeVars, cacheVars, agentVars>>

\* the rest of the loop body: regenerated = nl_builder.build(..., feedback);
\* ScenarioError is printed and the loop left
Replan ==
    /\ main_pc = "replan"
    /\ \E gave \in {"ok", "ScenarioError"} :
            /\ mainLog' = Append(mainLog, Gave("replan", gave))
            /\ main_pc' = IF gave = "ok" THEN "execute" ELSE "return"
    /\ UNCHANGED <<args, nl_builder, main_attempt, main_success, exit_code>>
    /\ UNCHANGED <<runVars, mergeVars, cacheVars, agentVars>>

\* return 0 if success else 1
Return ==
    /\ main_pc = "return"
    /\ main_pc' = "exit"
    /\ exit_code' = IF main_success THEN 0 ELSE 1
    /\ UNCHANGED <<args, nl_builder, main_attempt, main_success, mainLog>>
    /\ UNCHANGED <<runVars, mergeVars, cacheVars, agentVars>>

NextMain ==
    \/ LoadSettings \/ ReadPrompt \/ DynamicRun \/ BuildScenario \/ LoadFile
    \/ ExecuteRun \/ Replan \/ Return

\* main() has parsed the command line of a run command
InitMain ==
    /\ RunnerIdle
    /\ exit_code = NoExit
    /\ base_env = BaseEnv
    /\ MergeIdle
    /\ CacheIdle
    /\ AgentIdle
    /\ main_pc = "settings"
    /\ args \in [nl : {"none", "text", "nofile"}, scenario : BOOLEAN, dynamic : BOOLEAN]
    /\ nl_builder = FALSE
    /\ main_attempt = 0
    /\ main_success = FALSE
    /\ mainLog = <<>>

SpecMain == InitMain /\ [][NextMain]_vars

\* ------------------------------------------- DynamicNLAgent.execute_goal
\* self.max_steps
MaxSteps == 20

GoalResult(goal_status, steps) == [status |-> goal_status, steps |-> steps]

HistoryEntry(step, act, entry_status) ==
    [step |-> step, action |-> act, status |-> entry_status]

\* what _decide_next_action comes back with: an ActionStep (its action;
\* "hover" stands for every action _execute_action does not know) or None
Decisions == {"click", "done", "hover", "None"}

\* _execute_action(next_action) may throw: never for "done", always for an
\* unknown action, and for the others when the page call does
MayThrow(act) == act # "done"

MayPass(act) == act # "hover"

\* if not self.model: return error; otherwise self.history = [] and
\* steps_taken = 0
StartGoal ==
    /\ agent_pc = "start"
    /\ IF ~model
       THEN /\ goal_result' = GoalResult("error", <<>>)
            /\ agent_pc' = "returned"
            /\ UNCHANGED <<history, steps_taken>>
       ELSE /\ history' = <<>>
            /\ steps_taken' = 0
            /\ agent_pc' = "loop"
            /\ UNCHANGED goal_result
    /\ UNCHANGED model
    /\ UNCHANGED <<runnerVars, mergeVars, cacheVars, mainVars>>

\* one pass of `while steps_taken < self.max_steps`: observe (only
\* _get_current_dom is guarded; self.page.title() throws on a closed or
\* crashed page), decide, execute, record, check for "done"
GoalStep ==
    /\ agent_pc = "loop"
    /\ steps_taken < MaxSteps
    /\ \E titled \in BOOLEAN, next_action \in Decisions, threw \in BOOLEAN :
            IF ~titled
            THEN /\ agent_pc' = "raised"
                 /\ UNCHANGED <<history, steps_taken, goal_result>>
            ELSE IF next_action = "None"
            THEN /\ goal_result' = GoalResult("error", history)
                 /\ agent_pc' = "returned"
                 /\ UNCHANGED <<history, steps_taken>>
            ELSE IF threw
            THEN /\ MayThrow(next_action)
                 /\ history' = Append(history,
                                      HistoryEntry(steps_taken + 1, next_action, "failed"))
                 /\ goal_result' = GoalResult("failed", history')
                 /\ agent_pc' = "returned"
                 /\ UNCHANGED steps_taken
            ELSE /\ MayPass(next_action)
                 /\ history' = Append(history,
                                      HistoryEntry(steps_taken + 1, next_action, "success"))
                 /\ IF next_action = "done"
                    THEN /\ goal_result' = GoalResult("success", history')
                         /\ agent_pc' = "returned"
                         /\ UNCHANGED steps_taken
                    ELSE /\ steps_taken' = steps_taken + 1
                         /\ UNCHANGED <<agent_pc, goal_result>>
    /\ UNCHANGED model
    /\ UNCHANGED <<runnerVars, mergeVars, cacheVars, mainVars>>

\* the loop condition fails: return timeout
GoalTimeout ==
    /\ agent_pc = "loop"
    /\ steps_taken >= MaxSteps
    /\ goal_result' = GoalResult("timeout", history)
    /\ agent_pc' = "returned"
    /\ UNCHANGED <<model, steps_taken, history>>
    /\ UNCHANGED <<runnerVars, mergeVars, cacheVars, mainVars>>

NextAgent == StartGoal \/ GoalStep \/ GoalTimeout

\* agent.execute_goal(goal) is called on an agent with or without a model,
\* fresh or with the history of an earlier goal
InitAgent ==
    /\ RunnerIdle
    /\ exit_code = NoExit
    /\ base_env = BaseEnv
    /\ MergeIdle
    /\ CacheIdle
    /\ MainIdle
    /\ agent_pc = "start"
    /\ model \in BOOLEAN
    /\ steps_taken = 0
    /\ history \in {<<>>, <<HistoryEntry(1, "done", "success")>>}
    /\ goal_result = NoResult

SpecAgent == InitAgent /\ [][NextAgent]_vars

\* ================================================================ claims
Failed(rs) == {i \in 1..Len(rs) : rs[i].status = "failed"}

\* the calls of _execute for flow entry i, in order
AttemptsOf(i) == SelectSeq(execLog, LAMBDA e : e.index = i)

\* run() is done with entry i without having raised
Handled(i) == i < index \/ (i = index /\ pc \in {"for", "finish", "done"})

\* C1: fail-fast.  Once the StepResult of entry k is FAILED, no call of
\* _execute and no page call belongs to an entry after k, the loop stays at
\* k, the FAILED result is the k-th and last one, and the returned report
\* holds exactly k StepResults.
FailFast ==
    \A j \in Failed(results) :
        LET k == results[j].index
        IN  /\ j = Len(results)
            /\ j = k
            /\ index = k
            /\ \A e \in 1..Len(execLog) : execLog[e].index <= k
            /\ \A c \in 1..Len(pageLog) : pageLog[c].index <= k
            /\ returned.valid => Len(returned.steps) = k /\ returned.status = "failed"

FailFastWitness ==
    /\ returned.valid
    /\ Len(flow) = 3
    /\ Len(returned.steps) = 2
    /\ returned.steps[2].status = "failed"
    /\ returned.steps[1].status = "passed"

\* C2: bounded retry.  The attempts of an entry are numbered 1, 2, ... and
\* number at most stepRetries; none follows an attempt that did not throw;
\* an entry run() is done with, or that has a StepResult, was attempted at
\* least once; a FAILED StepResult means exactly stepRetries attempts, all
\* of which threw, and a PASSED one that the last attempt did not throw.
BoundedRetry ==
    \A i \in 1..Len(flow) :
        LET A == AttemptsOf(i)
            n == Len(A)
        IN  /\ n <= StepRetries
            /\ \A k \in 1..n : A[k].attempt = k /\ (A[k].ok => k = n)
            /\ Handled(i) => n >= 1
            /\ \A j \in 1..Len(results) :
                 results[j].index = i =>
                    /\ n >= 1
                    /\ results[j].status = "failed" =>
                          n = StepRetries /\ \A k \in 1..n : ~A[k].ok
                    /\ results[j].status = "passed" => A[n].ok

BoundedRetryWitness ==
    /\ StepRetries = 2
    /\ Len(results) = 2
    /\ results[1].status = "passed" /\ Len(AttemptsOf(1)) = 2
    /\ results[2].status = "failed" /\ Len(AttemptsOf(2)) = 2

\* C3: the returned status is FAILED exactly when the report holds a FAILED
\* StepResult and PASSED otherwise, the empty flow included; success is
\* true exactly when the status is PASSED.
FinalStatus ==
    returned.valid =>
        /\ returned.status \in {"passed", "failed"}
        /\ returned.status = "failed" <=> Failed(returned.steps) # {}
        /\ returned.success <=> returned.status = "passed"
        /\ flow = <<>> => returned.status = "passed" /\ returned.steps = <<>>

FinalStatusWitness ==
    /\ returned.valid
    /\ returned.status = "failed"
    /\ ~returned.success
    /\ Failed(returned.steps) = {2}

\* the i-th StepResult of rs is that of the i-th flow entry
PrefixOfFlow(rs) ==
    /\ Len(rs) <= Len(flow)
    /\ \A i \in 1..Len(rs) :
         /\ rs[i].index = i
         /\ Len(flow[i]) = 1
         /\ rs[i].action = flow[i][1][1]
         /\ rs[i].payload = flow[i][1][2]

\* C4 as stated: the steps are a prefix of the flow, and they equal the
\* whole flow only when every step passed.
PrefixWholeOnlyIfAllPassed ==
    /\ PrefixOfFlow(results)
    /\ Len(results) = Len(flow) => Failed(results) = {}
    /\ returned.valid =>
          /\ PrefixOfFlow(returned.steps)
          /\ Len(returned.steps) = Len(flow) => Failed(returned.steps) = {}

\* C4, amended: the steps are a prefix of the flow, during the run and in
\* the returned report; they cover the whole flow only when every step
\* before the last one passed (the last one may have FAILED).
PrefixWholeOnlyIfEarlierPassed ==
    /\ PrefixOfFlow(results)
    /\ Len(results) = Len(flow) => Failed(results) \subseteq {Len(flow)}
    /\ returned.valid =>
          /\ returned.steps = results
          /\ PrefixOfFlow(returned.steps)
          /\ Len(returned.steps) = Len(flow) => Failed(returned.steps) \subseteq {Len(flow)}

PrefixWitness ==
    /\ returned.valid
    /\ Len(flow) = 3
    /\ Len(returned.steps) = 3
    /\ Failed(returned.steps) = {3}

\* C5: when an attempt after the first is the one that does not throw, the
\* entry has exactly one StepResult, PASSED and without error, and its
\* duration_ms is the time from the start of that attempt to its end.
RetryThenPass ==
    (lastAttempt.attempt >= 2 /\ lastAttempt.exc = NoExc) =>
        LET i == lastAttempt.index
            R == {j \in 1..Len(results) : results[j].index = i}
        IN  /\ \A k \in 1..(lastAttempt.attempt - 1) : ~AttemptsOf(i)[k].ok
            /\ Cardinality(R) = 1
            /\ \A j \in R :
                 /\ results[j].status = "passed"
                 /\ results[j].error = PyNone
                 /\ results[j].duration_ms = lastAttempt.t1 - lastAttempt.t0

RetryThenPassWitness ==
    /\ lastAttempt.attempt = 2
    /\ lastAttempt.exc = NoExc
    /\ lastAttempt.t0 = TimeoutDefault
    /\ Len(results) = 1
    /\ results[1].duration_ms = CallMs

\* the positions of the page calls `op` made for flow entry i
CallsOf(op, i) == {c \in 1..Len(pageLog) : pageLog[c].op = op /\ pageLog[c].index = i}

ResultsOf(i) == {j \in 1..Len(results) : results[j].index = i}

\* C6: when the last of the stepRetries attempts of an entry has thrown,
\* the entry has exactly one StepResult, FAILED, with the message of that
\* last exception and the screenshot; the screenshot and the page-text
\* capture are made once, after the calls of the last attempt; an attempt
\* that throws before the last one records nothing and is followed by no
\* screenshot and no capture.
AllThrownRecorded ==
    (lastAttempt.attempt >= 1 /\ lastAttempt.exc # NoExc) =>
        LET i == lastAttempt.index
            n == Len(pageLog)
            own == Len(PageCalls(lastAttempt.calls))
            mine == {c \in 1..n : /\ pageLog[c].index = i
                                  /\ pageLog[c].attempt = lastAttempt.attempt}
        IN  IF lastAttempt.attempt = StepRetries
            THEN /\ Cardinality(ResultsOf(i)) = 1
                 /\ \A j \in ResultsOf(i) :
                      /\ results[j].status = "failed"
                      /\ results[j].error = lastAttempt.exc.msg
                      /\ results[j].screenshot = ScreenshotPath(i)
                 /\ Cardinality(mine) = own + 2
                 /\ CallsOf("screenshot", i) = {n - 1}
                 /\ pageLog[n].op = "inner_text" /\ pageLog[n].index = i
            ELSE /\ ResultsOf(i) = {}
                 /\ CallsOf("screenshot", i) = {}
                 /\ Cardinality(mine) = own

\* C7: a see attempt whose literal wait timed out goes on to the fallback
\* within the same attempt: the page text is read next, and the attempt
\* throws only if that read throws or the fallback reports no match.
SeeFallsBackOnTimeout ==
    LET calls == lastAttempt.calls
    IN  ( /\ lastAttempt.action = "see"
          /\ Len(calls) >= 1
          /\ calls[1].op = "wait_for_text"
          /\ calls[1].res = "TimeoutError" ) =>
            /\ Len(calls) >= 2
            /\ calls[2].op = "inner_text"
            /\ lastAttempt.exc # NoExc =>
                  \/ calls[2].res # "ok"
                  \/ StartsWith(lastAttempt.exc.msg, <<"Semantic expectation not met">>)

\* C8: every page.goto the engine makes targets a host of allowed_hosts;
\* a go attempt whose target (the path joined to the base URL) has a host
\* outside allowed_hosts makes no call on the page and throws the blocked-
\* navigation error; one whose host is allowed makes the goto call.
NavigationAllowList ==
    /\ \A c \in 1..Len(pageLog) :
         pageLog[c].op = "goto" => Hostname(pageLog[c].arg) \in settings.allowed_hosts
    /\ ( /\ lastAttempt.index = index
         /\ lastAttempt.action = "go"
         /\ payload.kind \in {"str", "dict"} ) =>
            LET path == IF payload.kind = "str" THEN payload.str
                        ELSE Get(payload, "path", <<"/">>)
                target == urljoin(settings.base_url, path)
            IN  IF Hostname(target) \in settings.allowed_hosts
                THEN /\ Len(lastAttempt.calls) = 1
                     /\ lastAttempt.calls[1].op = "goto"
                     /\ lastAttempt.calls[1].arg = target
                ELSE /\ lastAttempt.calls = <<>>
                     /\ lastAttempt.exc.cls = "RuntimeError"
                     /\ StartsWith(lastAttempt.exc.msg, <<"Blocked navigation to host">>)

NavigationAllowListWitness ==
    /\ lastAttempt.action = "go"
    /\ lastAttempt.attempt = 2
    /\ lastAttempt.calls = <<>>
    /\ lastAttempt.exc.msg = <<"Blocked navigation to host", " ", "evil.test">>
    /\ pageLog # <<>>
    /\ \A c \in 1..Len(pageLog) : pageLog[c].op # "goto"

\* C9: a flow entry with zero keys or several keys, once reached, is
\* handled like any step error: nothing is raised out of run(), the entry
\* is recorded FAILED and the run returns a FAILED report.
MalformedEntryConfined ==
    \A i \in 1..index :
        Malformed(flow[i]) =>
            /\ raised = NoExc
            /\ pc = "done" =>
                  /\ returned.valid
                  /\ returned.status = "failed"
                  /\ Len(returned.steps) = i
                  /\ returned.steps[i].status = "failed"

KnownActions == {"go", "type", "click", "see", "seeUrl", "waitApi", "a11y"}

\* C10: an attempt of an entry whose action is outside the seven kinds
\* throws the unknown-action error without a call on the page; after
\* stepRetries such attempts the entry is recorded FAILED, nothing is
\* raised out of run(), and the run returns a FAILED report.
UnknownActionRecorded ==
    (lastAttempt.attempt >= 1 /\ lastAttempt.action \notin KnownActions) =>
        LET i == lastAttempt.index
        IN  /\ lastAttempt.calls = <<>>
            /\ StartsWith(lastAttempt.exc.msg, <<"Unknown action">>)
            /\ \A c \in 1..Len(pageLog) :
                 pageLog[c].index = i => pageLog[c].op \in {"screenshot", "inner_text"}
            /\ lastAttempt.attempt = StepRetries =>
                  /\ raised = NoExc
                  /\ \E j \in ResultsOf(i) : results[j].status = "failed"
                  /\ status = "failed"
                  /\ pc \in {"finish", "done"}
                  /\ pc = "done" => returned.valid /\ returned.status = "failed"

\* C11: termination in a terminal state.  For a flow of single-key entries,
\* whatever the page operations do (the screenshot and the page-text
\* capture of a failing entry included), no exception leaves run(): the run
\* either can still take a step or has returned a report whose status is
\* PASSED or FAILED.
RunEndsInReport ==
    (\A i \in 1..Len(flow) : ~Malformed(flow[i])) =>
        /\ raised = NoExc
        /\ pc \in {"for", "attempt", "finish", "done"}
        /\ pc = "done" =>
              returned.valid /\ returned.status \in {"passed", "failed"}

\* the string scalars of a YAML value: the value itself, the values of a
\* mapping and the items of a list, at any depth
RECURSIVE StringsOf(_)
StringsOf(v) ==
    CASE v.kind = "str" -> {v.str}
      [] v.kind = "dict" -> UNION {StringsOf(v.items[i][2]) : i \in 1..Len(v.items)}
      [] v.kind = "list" -> UNION {StringsOf(v.items[i]) : i \in 1..Len(v.items)}
      [] OTHER -> {}

\* text holds a token whose dotted path env does not define
HoldsUnresolvedToken(text, env) ==
    \E i \in 1..Len(text) :
        /\ TokenAt(text, i) > 0
        /\ ~extract_env_value(PathOf(SubSeq(text, i, i + 2 * TokenAt(text, i))), env).found

\* the env a document is resolved against
LoadEnv == deep_merge(BaseEnv, MapGetOr(RawOf(document), "env", YMap(<<>>)))

\* the document has no flow, or a string scalar of its flow holds an
\* unresolved token
Unloadable ==
    \/ ~MapHas(RawOf(document), "flow")
    \/ \E text \in StringsOf(MapGet(RawOf(document), "flow")) :
          HoldsUnresolvedToken(text, LoadEnv)

LocatorOf(a, p) ==
    CASE a = "click" /\ p.kind = "str" -> p.str
      [] a = "click" /\ p.kind = "dict" -> Get(p, "on", PyNone)
      [] a = "type" /\ p.kind = "dict" /\ HasKey(p, "into") /\ HasKey(p, "text") ->
            Get(p, "into", PyNone)
      [] OTHER -> PyNone

\* the latest attempt is that of the current entry and resolved a locator
Resolving ==
    /\ lastAttempt.attempt >= 1
    /\ lastAttempt.index = index
    /\ Truthy(LocatorOf(action, payload))

\* a candidate for which _build_locator returns a query
Buildable(c) == StartsWith(c, <<"role", "=">>) => RoleParses(c)

\* the candidates of the latest attempt in sorted order, and those of them
\* that give a query
Candidates == locator_candidates(LocatorOf(action, payload))

BuildableCandidates == SelectSeq(Candidates, Buildable)

\* the calls _resolve_locator made in the latest attempt
ResolutionCalls ==
    SelectSeq(lastAttempt.calls, LAMBDA c : c.op \in {"query", "wait_for", "scroll"})

Queries == SelectSeq(ResolutionCalls, LAMBDA c : c.op = "query")

\* a candidate became visible and was scrolled into view
Found ==
    /\ ResolutionCalls # <<>>
    /\ ResolutionCalls[Len(ResolutionCalls)].op = "scroll"
    /\ ResolutionCalls[Len(ResolutionCalls)].res = "ok"

ResolutionFailed == StartsWith(lastAttempt.exc.msg, <<"Failed to resolve locator">>)

\* C13: the candidates are queried in sorted order, each once; a query is
\* followed by the wait for visibility and, when that succeeds, by the
\* scroll into view; a candidate whose wait or scroll throws is followed by
\* the query of the next candidate; the candidate whose scroll succeeds is
\* the last one tried and the fill or click follows it; resolution fails
\* only when every candidate was tried and failed.
TriedInSortedOrder ==
    Resolving =>
        LET rc == ResolutionCalls
            n == Len(rc)
        IN  /\ Len(Queries) <= Len(BuildableCandidates)
            /\ \A k \in 1..Len(Queries) : Queries[k].arg = BuildableCandidates[k]
            /\ \A j \in 1..n :
                 /\ rc[j].op = "query" =>
                       j < n /\ rc[j + 1].op = "wait_for" /\ rc[j + 1].arg = rc[j].arg
                 /\ rc[j].op = "wait_for" =>
                       /\ j > 1 /\ rc[j - 1].op = "query"
                       /\ IF rc[j].res = "ok"
                          THEN j < n /\ rc[j + 1].op = "scroll" /\ rc[j + 1].arg = rc[j].arg
                          ELSE j = n \/ rc[j + 1].op = "query"
                 /\ rc[j].op = "scroll" =>
                       /\ j > 1 /\ rc[j - 1].op = "wait_for" /\ rc[j - 1].res = "ok"
                       /\ IF rc[j].res = "ok" THEN j = n
                          ELSE j = n \/ rc[j + 1].op = "query"
            /\ IF Found
               THEN /\ ~ResolutionFailed
                    /\ Len(lastAttempt.calls) = n + 1
                    /\ lastAttempt.calls[n + 1].op \in {"fill", "click"}
               ELSE /\ ResolutionFailed
                    /\ Len(Queries) = Len(BuildableCandidates)
                    /\ lastAttempt.calls = rc

TriedInSortedOrderWitness ==
    /\ Resolving
    /\ Len(Candidates) = 3
    /\ Len(Queries) = 2
    /\ Queries[1].arg = <<"#", "gone">>
    /\ Queries[2].arg = <<"text", "=", "Save">>
    /\ lastAttempt.calls[2].res = "TimeoutError"
    /\ Found
    /\ lastAttempt.exc = NoExc

\* the class the syntactic prefix of a candidate names (a raw selector is 9
\* with nth-child in it and 6 without)
PrefixClass(c) ==
    CASE StartsWith(c, <<"[", "data-testid", "=">>) -> 0
      [] StartsWith(c, <<"role", "=">>) -> 1
      [] StartsWith(c, <<"#">>) -> 2
      [] StartsWith(c, <<"[", "name", "=">>) -> 3
      [] StartsWith(c, <<"[", "placeholder", "=">>) -> 4
      [] StartsWith(c, <<"text", "=">>) -> 5
      [] OTHER -> IF Contains(c, <<"nth-child">>) THEN 9 ELSE 6

\* C14: the priority _score_selector gives a candidate is the class of its
\* prefix, whatever follows the prefix.
ScoredByPrefix ==
    Resolving =>
        \A k \in 1..Len(Candidates) :
            score_selector(Candidates[k])[1] = PrefixClass(Candidates[k])

HasNthChild(c) == Contains(c, <<"nth-child">>)

\* C15: in the sorted list every candidate that contains nth-child has
\* priority 9 and comes after every candidate that does not, and the
\* queries of a resolution follow that order.
NthChildLast ==
    Resolving =>
        /\ \A k \in 1..Len(Candidates) :
             HasNthChild(Candidates[k]) => score_selector(Candidates[k])[1] = 9
        /\ \A j, k \in 1..Len(Candidates) :
             (HasNthChild(Candidates[j]) /\ ~HasNthChild(Candidates[k])) => k < j
        /\ \A j, k \in 1..Len(Queries) :
             (HasNthChild(Queries[j].arg) /\ ~HasNthChild(Queries[k].arg)) => k < j

FailureMsg(cls) == (CHOOSE f \in PageFailures : f.cls = cls).msg

\* str(exc) of the failure of the candidate tried last in sorted order
LastFailureMsg ==
    LET last == Candidates[Len(Candidates)]
        n == Len(lastAttempt.calls)
    IN  IF ~Buildable(last) THEN <<"Invalid role selector", " ">> \o last
        ELSE FailureMsg(lastAttempt.calls[n].res)

\* C17: when every candidate has failed, the attempt throws an error whose
\* message holds the locator expression as the step gave it (unsplit,
\* unsorted) followed by the failure of the candidate that is last in
\* sorted order, and the attempt makes no fill and no click.
LastFailureCarried ==
    (Resolving /\ ~Found /\ Candidates # <<>>) =>
        LET last == Candidates[Len(Candidates)]
            n == Len(lastAttempt.calls)
        IN  /\ lastAttempt.exc.cls = "RuntimeError"
            /\ Buildable(last) =>
                  /\ n >= 1
                  /\ lastAttempt.calls[n].arg = last
                  /\ lastAttempt.calls[n].res # "ok"
            /\ lastAttempt.exc.msg =
                  <<"Failed to resolve locator", " ">> \o LocatorOf(action, payload)
                      \o <<":", " ">> \o LastFailureMsg
            /\ \A c \in 1..n : lastAttempt.calls[c].op \notin {"fill", "click"}
            /\ \A c \in 1..Len(pageLog) :
                 (pageLog[c].index = index /\ pageLog[c].attempt = lastAttempt.attempt) =>
                    pageLog[c].op \notin {"fill", "click"}

LastFailureWitness ==
    /\ Resolving
    /\ ~Found
    /\ LocatorOf(action, payload) = <<".", "c", "|", "text", "=", "b", "|", "#", "a">>
    /\ Len(Queries) = 3
    /\ lastAttempt.calls[2].res = "TimeoutError"
    /\ lastAttempt.exc.msg =
          <<"Failed to resolve locator", " ", ".", "c", "|", "text", "=", "b", "|", "#", "a",
            ":", " ", "Target", " ", "closed">>

\* some candidate of the latest resolution failed with the message msg
FailedWith(msg) ==
    \/ \E k \in 1..Len(Candidates) :
          ~Buildable(Candidates[k]) /\ msg = <<"Invalid role selector", " ">> \o Candidates[k]
    \/ \E c \in 1..Len(ResolutionCalls) :
          ResolutionCalls[c].res # "ok" /\ msg = FailureMsg(ResolutionCalls[c].res)

\* C18: when resolution fails, the failure of every candidate that was
\* tried is represented in the error that is raised.
AllFailuresCarried ==
    (Resolving /\ ~Found) =>
        \A f \in {Raise("ValueError", <<"Invalid role selector", " ">> \o Candidates[k]) :
                     k \in 1..Len(Candidates)} \cup PageFailures :
            FailedWith(f.msg) => Contains(lastAttempt.exc.msg, f.msg)

\* the literal text and the meaning of a see payload
SeeText(p) == IF p.kind = "str" THEN p.str ELSE Get(p, "text", PyNone)

SeeMeaning(p) ==
    IF p.kind = "str" THEN PyNone
    ELSE PyOr(Get(p, "meaning", PyNone),
              PyOr(Get(p, "expected", PyNone), Get(p, "description", PyNone)))

SeeExpectation(p) == PyOr(SeeMeaning(p), SeeText(p))

\* the positions of the calls `op` in the latest attempt
LastCalls(op) == {c \in 1..Len(lastAttempt.calls) : lastAttempt.calls[c].op = op}

\* the latest attempt is a see attempt of the current entry that read the
\* page text for the semantic check of a non-blank expectation
Checking ==
    /\ lastAttempt.attempt >= 1
    /\ lastAttempt.index = index
    /\ action = "see"
    /\ payload.kind \in {"str", "dict"}
    /\ \E c \in LastCalls("inner_text") : lastAttempt.calls[c].res = "ok"
    /\ Truthy(Strip(SeeExpectation(payload)))

\* the page text the semantic check was given
CheckedText == lastAttempt.calls[CHOOSE c \in LastCalls("inner_text") : TRUE].val

\* what the local heuristic says of the latest attempt
LocalVerdict ==
    heuristic_match(CheckedText, Strip(SeeExpectation(payload)),
                    Get(payload, "selector", PyNone), Get(payload, "text", PyNone))

Unmet == Raise("RuntimeError", <<"Semantic expectation not met", " ">> \o SeeExpectation(payload))

\* C19: a configured comparator is asked once, after the page text is read;
\* its affirmative answer makes the attempt pass and its negative answer
\* makes it fail with the unmet-expectation error, whatever the local
\* heuristic would say; the heuristic decides only when no comparator is
\* configured, when it throws, or when its answer is neither.
ComparatorVerdictFinal ==
    Checking =>
        LET asked == LastCalls("comparator")
            passed == lastAttempt.exc = NoExc
        IN  IF settings.comparator
            THEN /\ Cardinality(asked) = 1
                 /\ \A c \in asked :
                      /\ \A t \in LastCalls("inner_text") : t < c
                      /\ lastAttempt.calls[c].val = CheckedText
                      /\ CASE lastAttempt.calls[c].res = "yes" -> passed
                           [] lastAttempt.calls[c].res = "no" -> lastAttempt.exc = Unmet
                           [] OTHER -> passed <=> LocalVerdict
            ELSE /\ asked = {}
                 /\ passed <=> LocalVerdict

ComparatorVerdictWitness ==
    /\ Checking
    /\ settings.comparator
    /\ \E c \in LastCalls("comparator") : lastAttempt.calls[c].res = "no"
    /\ SeeExpectation(payload) = <<"Welcome", " ", "back">>
    /\ CheckedText = <<"Welcome", " ", "back">>
    /\ LocalVerdict
    /\ lastAttempt.exc = Unmet

\* the first two tokens of the expectation ("!" counting as a space)
FirstTokens(expectation) ==
    LET tokens == Words(ReplaceBang(Lower(expectation)))
    IN  {tokens[i] : i \in 1..(IF Len(tokens) < 2 THEN Len(tokens) ELSE 2)}

\* C20: when no comparator is configured or the comparator throws, the
\* attempt passes exactly when (a) the expectation is, case-insensitively,
\* a substring of the page text, or (b) the probe text is one, or (c) each
\* of the first two tokens of the expectation occurs in the page text;
\* otherwise it fails with the error that names the expectation.
HeuristicExactlyABC ==
    ( /\ Checking
      /\ \A c \in LastCalls("comparator") : lastAttempt.calls[c].res = "error" ) =>
        LET page == Lower(CheckedText)
            expectation == Strip(SeeExpectation(payload))
            probe == Get(payload, "text", PyNone)
            a == Contains(page, Lower(expectation))
            b == Truthy(probe) /\ Contains(page, Lower(probe))
            c == \A token \in FirstTokens(expectation) : Contains(page, token)
        IN  IF a \/ b \/ c THEN lastAttempt.exc = NoExc ELSE lastAttempt.exc = Unmet

\* the latest attempt is a see attempt of the current entry, its payload a
\* string or a mapping
SeeAttempted ==
    /\ lastAttempt.attempt >= 1
    /\ lastAttempt.index = index
    /\ action = "see"
    /\ payload.kind \in {"str", "dict"}

\* C21: a see attempt whose payload has a literal text waits for that text
\* first, and when the wait succeeds the attempt passes with no other call
\* (no page-text read, no comparator); a payload without a literal text
\* makes no literal wait: with a meaning, the first call is the page-text
\* read and the comparator, if asked, is asked about the meaning; a failed
\* check names the meaning.
LiteralFirst ==
    SeeAttempted =>
        LET calls == lastAttempt.calls
        IN  IF Truthy(SeeText(payload))
            THEN /\ Len(calls) >= 1
                 /\ calls[1].op = "wait_for_text"
                 /\ calls[1].arg = SeeText(payload)
                 /\ LastCalls("wait_for_text") = {1}
                 /\ calls[1].res = "ok" => /\ lastAttempt.exc = NoExc
                                           /\ Len(calls) = 1
            ELSE /\ LastCalls("wait_for_text") = {}
                 /\ IF Truthy(SeeMeaning(payload))
                    THEN /\ Len(calls) >= 1
                         /\ calls[1].op = "inner_text"
                         /\ \A c \in LastCalls("comparator") :
                              calls[c].arg = Strip(SeeMeaning(payload))
                         /\ lastAttempt.exc.cls = "RuntimeError" =>
                              lastAttempt.exc.msg =
                                <<"Semantic expectation not met", " ">> \o SeeMeaning(payload)
                    ELSE calls = <<>>

LiteralFirstWitness ==
    /\ SeeAttempted
    /\ settings.comparator
    /\ Truthy(SeeText(payload))
    /\ Truthy(SeeMeaning(payload))
    /\ lastAttempt.calls[1].res = "ok"
    /\ lastAttempt.exc = NoExc

\* ---- the loader
\* load_scenario has returned a Scenario
Loaded == document # NoDocument /\ pc # "load" /\ scenario.err = NoExc

\* load_scenario has raised
LoadFailed == document # NoDocument /\ pc # "load" /\ scenario.err # NoExc

\* the steps of the document's flow as written
RawFlow == MapGetOr(RawOf(document), "flow", YList(<<>>)).items

\* position i of text lies inside a token that starts before it
InsideToken(text, i) ==
    \E j \in 1..(i - 1) : TokenAt(text, j) > 0 /\ i <= j + 2 * TokenAt(text, j)

\* what position i of text contributes to the substituted text: the
\* stringified env value where a token starts, nothing inside a token, the
\* lexeme itself anywhere else
Piece(text, i, env) ==
    LET n == TokenAt(text, i)
    IN  IF InsideToken(text, i) THEN <<>>
        ELSE IF n > 0
        THEN StrOf(extract_env_value(PathOf(SubSeq(text, i, i + 2 * n)), env).value)
        ELSE <<text[i]>>

\* the pieces of the first k positions of text, in order
RECURSIVE SubstitutedUpTo(_, _, _)
SubstitutedUpTo(text, k, env) ==
    IF k = 0 THEN <<>> ELSE SubstitutedUpTo(text, k - 1, env) \o Piece(text, k, env)

Substituted(text, env) == SubstitutedUpTo(text, Len(text), env)

\* res is raw with every string scalar, at any depth, substituted
RECURSIVE SubstitutedIn(_, _, _)
SubstitutedIn(raw, res, env) ==
    CASE raw.kind = "dict" ->
            /\ res.kind = "dict"
            /\ Len(res.items) = Len(raw.items)
            /\ \A i \in 1..Len(raw.items) :
                  SubstitutedIn(raw.items[i][2], res.items[i][2], env)
      [] raw.kind = "list" ->
            /\ res.kind = "list"
            /\ Len(res.items) = Len(raw.items)
            /\ \A i \in 1..Len(raw.items) : SubstitutedIn(raw.items[i], res.items[i], env)
      [] raw.kind = "str" -> res = YStr(Substituted(raw.str, env))
      [] OTHER -> TRUE

\* text holds a token whose dotted path env defines
HoldsResolvableToken(text, env) ==
    \E i \in 1..Len(text) :
        /\ TokenAt(text, i) > 0
        /\ extract_env_value(PathOf(SubSeq(text, i, i + 2 * TokenAt(text, i))), env).found

\* the value of env at a dotted path is the string s
EnvHas(env, path, s) ==
    LET got == extract_env_value(path, env)
    IN  got.found /\ got.value = YStr(s)

\* every string scalar of the resolved flow is the raw one with each token
\* replaced by the stringified env value and the text around it kept
FlowSubstituted ==
    /\ Len(scenario.flow) = Len(RawFlow)
    /\ \A i \in 1..Len(RawFlow) : SubstitutedIn(RawFlow[i], scenario.flow[i], scenario.env)
    /\ \A i \in 1..Len(RawFlow) :
          /\ ( /\ RawFlow[i] = YStep("note", YStr(<<"$env", ".", "a", ".", "b">>))
               /\ EnvHas(scenario.env, <<"a", "b">>, <<"x">>) )
                => scenario.flow[i] = YStep("note", YStr(<<"x">>))
          /\ ( /\ RawFlow[i] = YStep("note", YStr(<<"see", " ", "$env", ".", "a", ".", "b",
                                                     " ", "and", " ",
                                                     "$env", ".", "user", ".", "name", "!">>))
               /\ EnvHas(scenario.env, <<"a", "b">>, <<"x">>)
               /\ EnvHas(scenario.env, <<"user", "name">>, <<"Ann">>) )
                => scenario.flow[i] =
                     YStep("note", YStr(<<"see", " ", "x", " ", "and", " ", "Ann", "!">>))

\* C22 (as stated): in the resolved flow every token of every string scalar
\* at any depth is replaced by the stringified env value with the text
\* around it kept, and after a successful load no resolvable token remains
\* in the flow.
SubstitutedAndNoTokenLeft ==
    Loaded =>
        /\ FlowSubstituted
        /\ \A i \in 1..Len(scenario.flow) :
              \A text \in StringsOf(scenario.flow[i]) :
                  ~HoldsResolvableToken(text, scenario.env)

\* C22 (amended): in the resolved flow every token of every string scalar
\* of the raw flow, at any depth, is replaced by the stringified env value
\* with the text around it kept; the substituted text is the env value as
\* it is, token text included.
SubstitutedEverywhere == Loaded => FlowSubstituted

SubstitutedWitness ==
    /\ Loaded
    /\ \E i \in 1..Len(RawFlow) :
          /\ RawFlow[i].items[1][2].kind = "dict"
          /\ \E text \in StringsOf(RawFlow[i]) : HoldsResolvableToken(text, scenario.env)
          /\ StringsOf(scenario.flow[i]) = {<<"2">>, <<"<", "1", ">">>, <<"plain">>}

\* the document's meta as written
RawMeta == MapGetOr(RawOf(document), "meta", YMap(<<>>))

\* C23: every string scalar of the scenario's meta has its tokens
\* substituted with the env value, as for the flow: the Scenario the loader
\* returns, and the report of its run, hold no unsubstituted resolvable
\* token in meta.
MetaSubstituted ==
    Loaded =>
        /\ SubstitutedIn(RawMeta, scenario.meta, scenario.env)
        /\ \A text \in StringsOf(scenario.meta) : ~HoldsResolvableToken(text, scenario.env)
        /\ returned.valid =>
              \A text \in StringsOf(returned.meta) : ~HoldsResolvableToken(text, scenario.env)

\* merge(base_env, the document's env block)
MergedEnv == deep_merge(base_env, MapGetOr(RawOf(document), "env", YMap(<<>>)))

\* the tokens of the raw flow whose dotted path the merged env does not
\* define
UnresolvedTokens ==
    UNION { { SubSeq(text, i, i + 2 * TokenAt(text, i)) :
                i \in { j \in 1..Len(text) :
                          /\ TokenAt(text, j) > 0
                          /\ ~extract_env_value(
                                PathOf(SubSeq(text, j, j + 2 * TokenAt(text, j))),
                                MergedEnv).found } } :
            text \in UNION {StringsOf(RawFlow[k]) : k \in 1..Len(RawFlow)} }

RawEnv == MapGetOr(RawOf(document), "env", YMap(<<>>))

KeysOf(m) == {m.items[i][1] : i \in 1..Len(m.items)}

\* result is the merge of base and override by the merge rule
RECURSIVE MergeRule(_, _, _)
MergeRule(base, override, result) ==
    /\ result.kind = "dict"
    /\ Len(result.items) = Cardinality(KeysOf(result))
    /\ KeysOf(result) = KeysOf(base) \cup KeysOf(override)
    /\ \A key \in KeysOf(result) :
          IF key \notin KeysOf(override) THEN MapGet(result, key) = MapGet(base, key)
          ELSE IF /\ key \in KeysOf(base)
                  /\ MapGet(base, key).kind = "dict"
                  /\ MapGet(override, key).kind = "dict"
          THEN MergeRule(MapGet(base, key), MapGet(override, key), MapGet(result, key))
          ELSE MapGet(result, key) = MapGet(override, key)

\* C25: deep_merge(base, override) follows the merge rule at every depth:
\* the result has the union of the keys; a key both sides define as
\* mappings holds their recursive merge; any other key of override holds
\* the override value (scalar over mapping and mapping over scalar
\* included); a key only base has keeps the base value.  Checked on the env
\* load_scenario merges from base_env and the document's env block, with
\* merge({a:{x:1}}, {a:{y:2}}) = {a:{x:1,y:2}} and
\* merge({a:1}, {a:{b:2}}) = {a:{b:2}}.
MergeFollowsRule ==
    Loaded =>
        /\ MergeRule(base_env, RawEnv, scenario.env)
        /\ ( /\ base_env = YMap(<< <<"a", YMap(<< <<"x", YInt(1)>> >>)>> >>)
             /\ RawEnv = YMap(<< <<"a", YMap(<< <<"y", YInt(2)>> >>)>> >>) )
              => scenario.env =
                   YMap(<< <<"a", YMap(<< <<"x", YInt(1)>>, <<"y", YInt(2)>> >>)>> >>)
        /\ ( /\ base_env = YMap(<< <<"a", YInt(1)>> >>)
             /\ RawEnv = YMap(<< <<"a", YMap(<< <<"b", YInt(2)>> >>)>> >>) )
              => scenario.env = YMap(<< <<"a", YMap(<< <<"b", YInt(2)>> >>)>> >>)

MergeWitness ==
    /\ Loaded
    /\ MapHas(RawEnv, "a")
    /\ MapGet(RawEnv, "a").kind = "dict"
    /\ MapHas(MapGet(RawEnv, "a"), "b")
    /\ MapGet(MapGet(RawEnv, "a"), "b").kind = "dict"
    /\ scenario.env =
         YMap(<< <<"a", YMap(<< <<"b", YMap(<< <<"c", YInt(1)>>, <<"y", YInt(2)>> >>)>>,
                                <<"x", YInt(1)>> >>)>>,
                 <<"user", YStr(<<"Ann">>)>> >>)

\* the dotted paths of the tokens of the raw flow
TokenPaths ==
    UNION { { PathOf(SubSeq(text, i, i + 2 * TokenAt(text, i))) :
                i \in {j \in 1..Len(text) : TokenAt(text, j) > 0} } :
            text \in UNION {StringsOf(RawFlow[k]) : k \in 1..Len(RawFlow)} }

\* the document's env block holds a value that is no mapping at a proper
\* prefix of the path
DocEndsBefore(path) ==
    \E k \in 1..(Len(path) - 1) :
        LET got == extract_env_value(SubSeq(path, 1, k), RawEnv)
        IN  got.found /\ got.value.kind # "dict"

\* the base env defines the path and the document's env block leaves it alone
OnlyBaseDefines(path) ==
    /\ extract_env_value(path, base_env).found
    /\ ~extract_env_value(path, RawEnv).found
    /\ ~DocEndsBefore(path)

HoldsToken(text) == \E i \in 1..Len(text) : TokenAt(text, i) > 0

\* the raw step is a note whose payload is one token and the env value at
\* its path is a string that holds token text
NotesTokenText(step, env) ==
    /\ step.items[1][1] = "note"
    /\ step.items[1][2].kind = "str"
    /\ TokenAt(step.items[1][2].str, 1) > 0
    /\ Len(step.items[1][2].str) = 1 + 2 * TokenAt(step.items[1][2].str, 1)
    /\ LET got == extract_env_value(PathOf(step.items[1][2].str), env)
       IN  got.found /\ got.value.kind = "str" /\ HoldsToken(got.value.str)

\* C27: interpolation is single-pass.  A token whose env value holds token
\* text is replaced by that value verbatim: the text is not expanded and
\* no load fails on it, whether the env defines the inner path or not; the
\* strings of the env are those of the base env and of the document's env
\* block as written.
SinglePass ==
    /\ Loaded =>
          /\ \A i \in 1..Len(RawFlow) :
                NotesTokenText(RawFlow[i], MergedEnv) =>
                    scenario.flow[i].items[1][2] =
                        extract_env_value(PathOf(RawFlow[i].items[1][2].str), MergedEnv).value
          /\ StringsOf(scenario.env) \subseteq StringsOf(base_env) \cup StringsOf(RawEnv)
    /\ ( /\ document # NoDocument
         /\ pc # "load"
         /\ MapHas(RawOf(document), "flow")
         /\ UnresolvedTokens = {} ) => Loaded

SinglePassWitness ==
    /\ Loaded
    /\ \E i \in 1..Len(RawFlow) :
          /\ NotesTokenText(RawFlow[i], MergedEnv)
          /\ scenario.flow[i] = YStep("note", YStr(<<"<", "$env", ".", "a", ".", "c", ">">>))
    /\ ~extract_env_value(<<"a", "c">>, scenario.env).found

\* the target of the go entry i: the path joined to the base URL
GoTarget(i) ==
    LET p == flow[i][1][2]
    IN  urljoin(settings.base_url,
                IF p.kind = "str" THEN p.str ELSE Get(p, "path", <<"/">>))

\* entry i is a go step whose target host is outside allowed_hosts
BlockedGo(i) ==
    /\ Len(flow[i]) = 1
    /\ flow[i][1][1] = "go"
    /\ flow[i][1][2].kind \in {"str", "dict"}
    /\ Hostname(GoTarget(i)) \notin settings.allowed_hosts

RECURSIVE SameShape(_, _)
SameShape(raw, res) ==
    CASE raw.kind = "dict" ->
            /\ res.kind = "dict"
            /\ Len(res.items) = Len(raw.items)
            /\ \A i \in 1..Len(raw.items) :
                  /\ res.items[i][1] = raw.items[i][1]
                  /\ SameShape(raw.items[i][2], res.items[i][2])
      [] raw.kind = "list" ->
            /\ res.kind = "list"
            /\ Len(res.items) = Len(raw.items)
            /\ \A i \in 1..Len(raw.items) : SameShape(raw.items[i], res.items[i])
      [] raw.kind = "str" ->
            IF HoldsToken(raw.str) THEN res.kind = "str" ELSE res = raw
      [] OTHER -> res = raw

\* C29: resolution preserves the shape of the flow.  The resolved flow has
\* the length and the order of the raw flow, every entry keeps its keys
\* (token text in a key stays as written), every list keeps its length and
\* order, and non-string scalars and strings without a token come back
\* unchanged; the runner is handed the entries in that order.
ShapeKept ==
    Loaded =>
        /\ Len(scenario.flow) = Len(RawFlow)
        /\ \A i \in 1..Len(RawFlow) : SameShape(RawFlow[i], scenario.flow[i])
        /\ Len(flow) = Len(RawFlow)
        /\ \A i \in 1..Len(RawFlow) :
              /\ Len(flow[i]) = Len(RawFlow[i].items)
              /\ \A k \in 1..Len(flow[i]) : flow[i][k][1] = RawFlow[i].items[k][1]

ShapeKeptWitness ==
    /\ Loaded
    /\ Len(RawFlow) = 2
    /\ RawFlow[2] = GoHome
    /\ scenario.flow[2] = GoHome
    /\ scenario.flow[1].items[1][1] = "note"
    /\ LET p == scenario.flow[1].items[1][2]
       IN  /\ p.kind = "dict"
           /\ p.items[2] = <<"$env.a.b", YStr(<<"plain">>)>>
           /\ p.items[1][2].items[1] = YStr(<<"x">>)
           /\ p.items[1][2].items[2] = YInt(7)
           /\ p.items[1][2].items[3].items[1][1] = "deep"

\* C30: loading a document that has no flow key raises the configuration
\* error "Scenario missing 'flow'" whatever its meta and env hold (an empty
\* document included): no Scenario is returned, main returns 2 and nothing
\* is run.
NoFlowFails ==
    ( /\ document \notin {NoDocument, NoFile}
      /\ pc # "load"
      /\ ~MapHas(RawOf(document), "flow") ) =>
        /\ scenario = ScenarioError(<<"Scenario missing 'flow'">>)
        /\ pc = "exit"
        /\ exit_code = 2
        /\ flow = <<>>
        /\ execLog = <<>>
        /\ results = <<>>
        /\ ~returned.valid

NoFlowWitness ==
    /\ pc = "exit"
    /\ scenario.err.msg = <<"Scenario missing 'flow'">>
    /\ MapHas(RawOf(document), "meta")
    /\ HoldsToken(MapGet(RawMeta, "name").str)
    /\ MapHas(RawEnv, "ref")
    /\ base_env # YMap(<<>>)

\* C31: in every report run() returns at most one StepResult is FAILED and
\* it is the last of steps; every StepResult before it is PASSED; a PASSED
\* StepResult has no error, no screenshot and no context; every status is
\* PASSED or FAILED.
ReportShape ==
    returned.valid =>
        LET steps == returned.steps
        IN  /\ Cardinality(Failed(steps)) <= 1
            /\ Failed(steps) \subseteq {Len(steps)}
            /\ \A i \in 1..Len(steps) :
                  /\ steps[i].status \in {"passed", "failed"}
                  /\ i < Len(steps) => steps[i].status = "passed"
                  /\ steps[i].status = "passed" =>
                        /\ steps[i].error = PyNone
                        /\ steps[i].screenshot = PyNone
                        /\ steps[i].context = PyNone

ReportShapeWitness ==
    /\ returned.valid
    /\ Len(returned.steps) = 3
    /\ Failed(returned.steps) = {3}
    /\ Len(AttemptsOf(1)) = 2
    /\ returned.steps[3].error # PyNone
    /\ returned.steps[3].screenshot # PyNone
    /\ returned.steps[3].context # PyNone

\* what run() holds, dispatches and reports is the flow as load_scenario
\* resolved it
DispatchesResolvedFlow ==
    Loaded =>
        /\ flow = [i \in 1..Len(scenario.flow) |-> AsEntry(scenario.flow[i])]
        /\ (index >= 1 /\ pc # "raised") =>
              /\ action = scenario.flow[index].items[1][1]
              /\ payload = AsPayload(scenario.flow[index].items[1][2])
        /\ lastAttempt.attempt >= 1 =>
              lastAttempt.action = scenario.flow[lastAttempt.index].items[1][1]
        /\ \A j \in 1..Len(results) :
              /\ results[j].index = j
              /\ results[j].action = scenario.flow[j].items[1][1]
              /\ results[j].payload = AsPayload(scenario.flow[j].items[1][2])
        /\ returned.valid => returned.meta = scenario.meta /\ returned.steps = results

\* C32: execution never re-resolves or mutates the scenario.  Once loaded,
\* the Scenario's meta, env and flow stay as they are through every step
\* of run(), and the (action, payload) pairs run() dispatches and reports
\* are those of the flow as resolved at load time, on every attempt of an
\* entry.
ScenarioUntouched ==
    /\ []DispatchesResolvedFlow
    /\ [][pc # "load" => (scenario' = scenario /\ flow' = flow)]_vars

ScenarioUntouchedWitness ==
    /\ Loaded
    /\ Len(RawFlow) = 1
    /\ \E text \in StringsOf(RawFlow[1]) : HoldsToken(text)
    /\ lastAttempt.attempt = 2
    /\ lastAttempt.index = 1
    /\ action = "see"
    /\ payload = PDict({<<"text", <<"Welcome", " ", "Ann">>>>})
    /\ Len(results) = 1

\* C33: the effective retry count is max(1, configured retry.step).  With
\* a configured value of 0 or below every entry run() handles or records
\* was attempted exactly once; with a value of 1 or more it was attempted
\* at least once and at most that many times, a FAILED one exactly that
\* many; no StepResult, PASSED or FAILED, is without an attempt.
EffectiveRetry ==
    /\ \A i \in 1..Len(flow) :
          (Handled(i) \/ ResultsOf(i) # {}) =>
              LET n == Len(AttemptsOf(i))
              IN  IF settings.retry_step <= 0 THEN n = 1
                  ELSE /\ n >= 1
                       /\ n <= settings.retry_step
                       /\ (\E j \in ResultsOf(i) : results[j].status = "failed")
                            => n = settings.retry_step
    /\ \A j \in 1..Len(results) : Len(AttemptsOf(results[j].index)) >= 1

EffectiveRetryWitness ==
    /\ settings.retry_step < 0
    /\ returned.valid
    /\ Len(returned.steps) = 2
    /\ returned.steps[1].status = "passed"
    /\ returned.steps[2].status = "failed"
    /\ Len(execLog) = 2

\* the characters of a text, as one string
RECURSIVE Flat(_)
Flat(s) == IF s = <<>> THEN "" ELSE Head(s) \o Flat(Tail(s))

\* the latest attempt was the last of a failing entry and the page text was
\* read, or tried to be read, for its context
ContextCollected == lastAttempt.attempt >= 1 /\ lastAttempt.context_calls # <<>>

\* C34: the context of a FAILED StepResult is the whitespace-collapsed page
\* text cut to its first 500 characters for a see step and to its first
\* 200 for any other action; it is absent when the collapsed text is empty
\* or the read throws; a read that throws leaves the StepResult FAILED with
\* the error of the last attempt, and the report is still returned.
ContextTruncated ==
    ContextCollected =>
        LET i == lastAttempt.index
            read == lastAttempt.context_calls[1]
            limit == IF lastAttempt.action = "see" THEN 500 ELSE 200
        IN  /\ Len(lastAttempt.context_calls) = 1
            /\ read.op = "inner_text"
            /\ Cardinality(ResultsOf(i)) = 1
            /\ \A j \in ResultsOf(i) :
                  /\ results[j].status = "failed"
                  /\ results[j].error = lastAttempt.exc.msg
                  /\ results[j].screenshot = ScreenshotPath(i)
                  /\ IF read.res # "ok" THEN results[j].context = PyNone
                     ELSE LET text == Flat(JoinWords(Words(read.val)))
                          IN  IF text = "" THEN results[j].context = PyNone
                              ELSE /\ results[j].context # PyNone
                                   /\ Flat(results[j].context) =
                                        SubSeq(text, 1, IF Len(text) < limit
                                                        THEN Len(text) ELSE limit)
                                   /\ \A k \in 1..Len(results[j].context) :
                                         results[j].context[k] # "\n"
            /\ raised = NoExc
            /\ status = "failed"
            /\ pc = "done" => /\ returned.valid
                              /\ returned.status = "failed"
                              /\ returned.steps = results

ContextTruncatedWitness ==
    /\ ContextCollected
    /\ pc = "done"
    /\ lastAttempt.action = "see"
    /\ returned.steps[Len(returned.steps)].context # PyNone
    /\ Len(Flat(returned.steps[Len(returned.steps)].context)) = 500
    /\ Len(Flat(JoinWords(Words(lastAttempt.context_calls[1].val)))) > 500

\* the whitespace-trimmed, non-empty parts of a locator expression, in the
\* order of the expression
TrimmedParts(raw) ==
    LET split == SplitOn(raw, "|")
        trimmed == [i \in 1..Len(split) |-> Strip(split[i])]
    IN  SelectSeq(trimmed, LAMBDA part : part # <<>>)

\* C35: locator_candidates gives the trimmed, non-empty parts of the
\* expression, each as often as the expression has it, and those of equal
\* (priority, length) in their input order: for every key, the candidates
\* with that key are the parts with that key, in the same order.  An
\* expression without a non-blank part has no candidate and its resolution
\* fails without a query on the page.
CandidatesPermuteParts ==
    Resolving =>
        LET raw == LocatorOf(action, payload)
            parts == TrimmedParts(raw)
            cands == locator_candidates(raw)
        IN  /\ Len(cands) = Len(parts)
            /\ \A k \in {score_selector(parts[i]) : i \in 1..Len(parts)}
                       \cup {score_selector(cands[i]) : i \in 1..Len(cands)} :
                  SelectSeq(cands, LAMBDA c : score_selector(c) = k)
                      = SelectSeq(parts, LAMBDA c : score_selector(c) = k)
            /\ \A c \in 1..Len(lastAttempt.calls) :
                  lastAttempt.calls[c].op = "query" =>
                      \E i \in 1..Len(parts) : lastAttempt.calls[c].arg = parts[i]
            /\ parts = <<>> =>
                  /\ cands = <<>>
                  /\ lastAttempt.calls = <<>>
                  /\ lastAttempt.exc.cls = "RuntimeError"
                  /\ lastAttempt.exc.msg =
                       <<"Failed to resolve locator", " ">> \o raw \o <<":", " ", "None">>

CandidatesPermuteWitness ==
    /\ Resolving
    /\ TrimmedParts(LocatorOf(action, payload))
         = << <<".", "c">>, <<"#", "b">>, <<".", "a">>, <<"#", "b">> >>
    /\ Len(Queries) = 4
    /\ Queries[1].arg = <<"#", "b">>
    /\ Queries[2].arg = <<"#", "b">>
    /\ Queries[3].arg = <<".", "c">>
    /\ Queries[4].arg = <<".", "a">>

\* C36: deep_merge has no effect on its arguments.  After every merge the
\* caller's base env and every scenario's env block hold, at every depth,
\* the keys and values they were built with, and every env built from the
\* base, the first like the last, is the one a merge into a fresh copy of
\* the base gives.
MergeLeavesArguments ==
    /\ Deref(heap, base_ref) = base_env
    /\ \A k \in 1..Len(merges) :
            /\ Deref(heap, merges[k].override) = merges[k].given
            /\ Deref(heap, merges[k].env)
                  = deep_merge(deep_merge(YMap(<<>>), base_env), merges[k].given)

MergeLeavesArgumentsWitness ==
    /\ Len(merges) = 2
    /\ MapHas(base_env, "a")
    /\ MapGet(base_env, "a").kind = "dict"
    /\ MapGet(base_env, "a").items # <<>>
    /\ \A k \in 1..2 :
            /\ MapHas(merges[k].given, "a")
            /\ MapGet(merges[k].given, "a").kind = "dict"
    /\ merges[1].given # merges[2].given
    /\ Deref(heap, merges[1].env) # Deref(heap, merges[2].env)

\* the cache_dom calls for the url of call i that came before it
StoresBefore(i) ==
    {j \in 1..(i - 1) : lookups[j].op = "cache_dom" /\ lookups[j].url = lookups[i].url}

Latest(S) == CHOOSE j \in S : \A k \in S : k <= j

\* every get_cached_dom that returned a snapshot was preceded by a cache_dom
\* for that very url, the latest of them less than 300 s earlier, and
\* returned the snapshot of that latest one
CacheAnswers ==
    \A i \in 1..Len(lookups) :
        (lookups[i].op = "get_cached_dom" /\ lookups[i].result # PyNone)
            => /\ StoresBefore(i) # {}
               /\ lookups[i].time - lookups[Latest(StoresBefore(i))].time < 300
               /\ lookups[i].result = lookups[Latest(StoresBefore(i))].snapshot

\* a call leaves the entries of the other urls as they are, and a lookup
\* that finds an entry aged 300 s or more returns None and removes it
CacheStep ==
    Len(lookups') > Len(lookups)
        => LET call == lookups'[Len(lookups')]
           IN  /\ \A e \in dom_cache \cup dom_cache' :
                    e.url # call.url => (e \in dom_cache <=> e \in dom_cache')
               /\ (/\ call.op = "get_cached_dom"
                   /\ \E e \in dom_cache : e.url = call.url /\ time - e.timestamp >= 300)
                    => /\ call.result = PyNone
                       /\ ~InCache(dom_cache', call.url)

\* C37: the DOM cache.  get_cached_dom(url) returns a snapshot only if
\* cache_dom stored one for exactly that url less than 300 seconds before,
\* and then the most recently stored one; a lookup that finds an entry aged
\* 300 seconds or more removes it and returns None; neither operation
\* touches the entries of other urls.
DomCacheSound == []CacheAnswers /\ [][CacheStep]_vars

\* stored twice for one url, read back 299 s after the second store (the
\* second snapshot) and 300 s or more after it (None, and the entry is gone)
DomCacheWitness ==
    /\ Len(lookups) = 4
    /\ lookups[1].op = "cache_dom"
    /\ lookups[2].op = "cache_dom"
    /\ lookups[2].url = lookups[1].url
    /\ lookups[2].snapshot # lookups[1].snapshot
    /\ lookups[3].op = "get_cached_dom"
    /\ lookups[3].url = lookups[1].url
    /\ lookups[3].time - lookups[2].time = 299
    /\ lookups[3].result = lookups[2].snapshot
    /\ lookups[4].op = "get_cached_dom"
    /\ lookups[4].url = lookups[1].url
    /\ lookups[4].time - lookups[2].time >= 300
    /\ lookups[4].result = PyNone
    /\ dom_cache = {}

\* what the executions of main() so far gave, in order
Executions ==
    SelectSeq(mainLog, LAMBDA e : e.call \in {"_execute_run", "execute_goal"})

Succeeded(e) == e.gave \in {"passed", "success"}

MainEnded == main_pc \in {"exit", "raised"}

\* a collaborator that loads the configuration or the scenario failed
LoadingFailed ==
    \E i \in 1..Len(mainLog) :
        /\ mainLog[i].call \in {"load_settings", "load_scenario", "build"}
        /\ mainLog[i].gave # "ok"

LoadingRejected ==
    \E i \in 1..Len(mainLog) :
        /\ mainLog[i].call \in {"load_settings", "load_scenario", "build"}
        /\ mainLog[i].gave \in {"ConfigError", "ScenarioError"}

FromFile == \E i \in 1..Len(mainLog) : mainLog[i] = Gave("load_scenario", "ok")

\* a scenario from a file runs once, a generated one at most twice, the
\* second run only after a failed first and a replan that gave a scenario,
\* and nothing runs after a run that passed
RunLoop ==
    /\ FromFile => Len(Executions) <= 1
    /\ (FromFile /\ MainEnded) => Len(Executions) = 1
    /\ Len(Executions) <= 2
    /\ Len(Executions) = 2
        => /\ nl_builder
           /\ Executions[1].gave = "failed"
           /\ \E i \in 2..(Len(mainLog) - 1) :
                /\ mainLog[i] = Gave("replan", "ok")
                /\ mainLog[i - 1] = Gave("_execute_run", "failed")
                /\ mainLog[i + 1].call = "_execute_run"
    /\ \A i \in 1..(Len(Executions) - 1) : ~Succeeded(Executions[i])

\* the loop rule, and the exit codes of the failures main() catches
RunLoopAndCaughtErrors ==
    /\ RunLoop
    /\ MainEnded =>
        /\ exit_code = 0 <=> (Executions # <<>> /\ Succeeded(Executions[Len(Executions)]))
        /\ (Executions # <<>> /\ ~Succeeded(Executions[Len(Executions)])) => exit_code = 1
        /\ LoadingRejected => (exit_code = 2 /\ Executions = <<>>)

\* C38: the CLI run loop.  A scenario loaded from a file is executed exactly
\* once, a generated one at most twice (the second time only after a failed
\* first execution and a successful replan), nothing is executed after a
\* success; the exit code is 0 exactly when the last execution succeeded, 1
\* when it failed, and 2, with no execution, when loading the configuration
\* or the scenario fails.
RunLoopAndExitCode ==
    /\ RunLoop
    /\ MainEnded =>
        /\ exit_code = 0 <=> (Executions # <<>> /\ Succeeded(Executions[Len(Executions)]))
        /\ (Executions # <<>> /\ ~Succeeded(Executions[Len(Executions)])) => exit_code = 1
        /\ LoadingFailed => (exit_code = 2 /\ Executions = <<>>)

AllSucceeded(steps) == \A i \in 1..Len(steps) : steps[i].status = "success"

\* what execute_goal returns: the status, the history it reports
GoalStatusRule ==
    /\ Len(history) <= 20
    /\ agent_pc = "returned" =>
        LET steps == goal_result.steps
            k == Len(steps)
        IN  /\ goal_result.status \in {"success", "failed", "error", "timeout"}
            /\ k <= 20
            /\ \A i \in 1..k : steps[i].step = i
            /\ \A i \in 1..(k - 1) : steps[i].status = "success" /\ steps[i].action # "done"
            /\ goal_result.status = "failed" => (k >= 1 /\ steps[k].status = "failed")
            /\ goal_result.status = "success"
                => (k >= 1 /\ steps[k].action = "done" /\ steps[k].status = "success")
            /\ goal_result.status = "error" => AllSucceeded(steps)
            /\ goal_result.status = "timeout"
                => (k = 20 /\ AllSucceeded(steps) /\ steps[k].action # "done")

\* C39: execute_goal always ends with a status in {success, failed, error,
\* timeout} after at most 20 executed actions: failed at the first action
\* that throws, success only right after a done action that did not throw,
\* error with no model or no decision, timeout only after 20 successful
\* actions other than done; the history has one entry per executed action,
\* numbered 1..k.
GoalEndsInStatus ==
    /\ agent_pc # "raised"
    /\ GoalStatusRule

====
